---- MODULE Spec2Model ----
(***************************************************************************)
(* Model of the cfn-root-cause correlation engine (package correlator):    *)
(* CorrelateErrorsWithConfig, FindMatchingTrailEventWithConfig, the match  *)
(* scorer and the message extractor, over bounded failure and event lists. *)
(*                                                                         *)
(* Strings are sequences of one-character strings, so that lower-casing,   *)
(* concatenation and substring search are computed and not assumed.        *)
(* time.Time is an integer number of minutes, time.Time{} is 0.            *)
(* time.Duration is a signed two's-complement integer; the model keeps     *)
(* the arithmetic of the int64 at DurationBits bits.                       *)
(***************************************************************************)
EXTENDS Integers, Sequences, FiniteSets, TLC

\* ------------------------------------------------------------------ bounds
MaxErrors == 2
MaxEvents == 3
DurationBits == 4

\* ----------------------------------------------------------------- strings
UpperChars == <<"A","B","C","D","E","F","G","H","I","J","K","L","M",
                "N","O","P","Q","R","S","T","U","V","W","X","Y","Z">>
LowerChars == <<"a","b","c","d","e","f","g","h","i","j","k","l","m",
                "n","o","p","q","r","s","t","u","v","w","x","y","z">>

ToLowerChar(c) ==
    IF \E i \in 1..Len(UpperChars) : UpperChars[i] = c
    THEN LowerChars[CHOOSE i \in 1..Len(UpperChars) : UpperChars[i] = c]
    ELSE c

\* strings.ToLower
ToLower(s) == [i \in 1..Len(s) |-> ToLowerChar(s[i])]

\* strings.Contains: the empty string is contained in every string
Contains(s, substr) ==
    \E i \in 0..(Len(s) - Len(substr)) : SubSeq(s, i + 1, i + Len(substr)) = substr

\* index (from 1) of the first occurrence of sep in s, 0 when there is none
IndexOf(s, sep) ==
    IF Contains(s, sep)
    THEN CHOOSE i \in 1..(Len(s) - Len(sep) + 1) :
            /\ SubSeq(s, i, i + Len(sep) - 1) = sep
            /\ \A j \in 1..(i - 1) : SubSeq(s, j, j + Len(sep) - 1) # sep
    ELSE 0

RECURSIVE Split(_, _)
\* strings.Split for a non-empty separator
Split(s, sep) ==
    LET i == IndexOf(s, sep)
    IN  IF i = 0 THEN <<s>>
        ELSE <<SubSeq(s, 1, i - 1)>> \o Split(SubSeq(s, i + Len(sep), Len(s)), sep)

\* ------------------------------------------------------------------- time
\* time.Duration: range of the signed integer
MaxDuration == 2^(DurationBits - 1) - 1
MinDuration == -(2^(DurationBits - 1))

\* two's-complement wrap-around of the result of an integer operation
WrapDuration(x) == ((x - MinDuration) % (2^DurationBits)) + MinDuration

\* time.Time.Sub: the difference, saturated at the largest and smallest Duration
TimeSub(t, u) ==
    IF t - u > MaxDuration THEN MaxDuration
    ELSE IF t - u < MinDuration THEN MinDuration
    ELSE t - u

absTimeDiff(t1, t2) ==
    LET diff == TimeSub(t1, t2)
    IN  IF diff < 0 THEN WrapDuration(-diff) ELSE diff

\* time.Time{}: what safeTime returns for a nil timestamp
ZeroTime == 0

DefaultTimeWindow == 5

DefaultConfig == [TimeWindow |-> DefaultTimeWindow]

\* ------------------------------------------------------ response payloads
\* A value of map[string]interface{}: kind is the dynamic type, str the
\* string when kind = "string", obj the nested map when kind = "map".
\* A value inside a nested map has the fields kind and str only.
StrVal(s)  == [kind |-> "string", str |-> s, obj |-> <<>>]
NumVal     == [kind |-> "number", str |-> <<>>, obj |-> <<>>]
NullVal    == [kind |-> "null", str |-> <<>>, obj |-> <<>>]
ListVal    == [kind |-> "list", str |-> <<>>, obj |-> <<>>]
MapVal(m)  == [kind |-> "map", str |-> <<>>, obj |-> m]
LeafStr(s) == [kind |-> "string", str |-> s]
LeafNum    == [kind |-> "number", str |-> <<>>]

\* ResponseElements: a nil map, or a map from keys to values
NilMap     == [isNil |-> TRUE, m |-> <<>>]
GoMap(m)   == [isNil |-> FALSE, m |-> m]

KeyMessageLower == <<"m","e","s","s","a","g","e">>
KeyMessageUpper == <<"M","e","s","s","a","g","e">>
KeyErrorLower   == <<"e","r","r","o","r">>
KeyErrorUpper   == <<"E","r","r","o","r">>

\* m[key].(string) with ok && msg != "": the string, or the empty string
\* when the key is missing, holds another type or holds the empty string
StringAt(m, key) ==
    IF key \in DOMAIN m /\ m[key].kind = "string" THEN m[key].str ELSE <<>>

\* m[key].(map[string]interface{}): ok
IsMapAt(m, key) == key \in DOMAIN m /\ m[key].kind = "map"

\* variant: "Message" is tried before "message", at the top level and nested
extractMessageCapitalFirst(responseElements) ==
    IF responseElements.isNil THEN <<>>
    ELSE LET m == responseElements.m
         IN  IF StringAt(m, KeyMessageUpper) # <<>> THEN StringAt(m, KeyMessageUpper)
             ELSE IF StringAt(m, KeyMessageLower) # <<>> THEN StringAt(m, KeyMessageLower)
             ELSE IF IsMapAt(m, KeyErrorLower)
                     /\ StringAt(m[KeyErrorLower].obj, KeyMessageUpper) # <<>>
                  THEN StringAt(m[KeyErrorLower].obj, KeyMessageUpper)
             ELSE IF IsMapAt(m, KeyErrorLower)
                     /\ StringAt(m[KeyErrorLower].obj, KeyMessageLower) # <<>>
                  THEN StringAt(m[KeyErrorLower].obj, KeyMessageLower)
             ELSE IF IsMapAt(m, KeyErrorUpper)
                     /\ StringAt(m[KeyErrorUpper].obj, KeyMessageUpper) # <<>>
                  THEN StringAt(m[KeyErrorUpper].obj, KeyMessageUpper)
             ELSE IF IsMapAt(m, KeyErrorUpper)
                     /\ StringAt(m[KeyErrorUpper].obj, KeyMessageLower) # <<>>
                  THEN StringAt(m[KeyErrorUpper].obj, KeyMessageLower)
             ELSE <<>>

\* variant: a "message" or "error" key of the wrong type ends the search
extractMessageStopsAtMismatch(responseElements) ==
    IF responseElements.isNil THEN <<>>
    ELSE LET m == responseElements.m
         IN  IF StringAt(m, KeyMessageLower) # <<>> THEN StringAt(m, KeyMessageLower)
             ELSE IF KeyMessageLower \in DOMAIN m /\ m[KeyMessageLower].kind # "string"
                  THEN <<>>
             ELSE IF StringAt(m, KeyMessageUpper) # <<>> THEN StringAt(m, KeyMessageUpper)
             ELSE IF KeyErrorLower \in DOMAIN m /\ ~IsMapAt(m, KeyErrorLower) THEN <<>>
             ELSE IF IsMapAt(m, KeyErrorLower)
                     /\ StringAt(m[KeyErrorLower].obj, KeyMessageLower) # <<>>
                  THEN StringAt(m[KeyErrorLower].obj, KeyMessageLower)
             ELSE IF IsMapAt(m, KeyErrorLower)
                     /\ StringAt(m[KeyErrorLower].obj, KeyMessageUpper) # <<>>
                  THEN StringAt(m[KeyErrorLower].obj, KeyMessageUpper)
             ELSE IF IsMapAt(m, KeyErrorUpper)
                     /\ StringAt(m[KeyErrorUpper].obj, KeyMessageLower) # <<>>
                  THEN StringAt(m[KeyErrorUpper].obj, KeyMessageLower)
             ELSE IF IsMapAt(m, KeyErrorUpper)
                     /\ StringAt(m[KeyErrorUpper].obj, KeyMessageUpper) # <<>>
                  THEN StringAt(m[KeyErrorUpper].obj, KeyMessageUpper)
             ELSE <<>>

extractMessageFromResponseElements(responseElements) ==
    IF responseElements.isNil THEN <<>>
    ELSE LET m == responseElements.m
         IN  IF StringAt(m, KeyMessageLower) # <<>> THEN StringAt(m, KeyMessageLower)
             ELSE IF StringAt(m, KeyMessageUpper) # <<>> THEN StringAt(m, KeyMessageUpper)
             ELSE IF IsMapAt(m, KeyErrorLower)
                     /\ StringAt(m[KeyErrorLower].obj, KeyMessageLower) # <<>>
                  THEN StringAt(m[KeyErrorLower].obj, KeyMessageLower)
             ELSE IF IsMapAt(m, KeyErrorLower)
                     /\ StringAt(m[KeyErrorLower].obj, KeyMessageUpper) # <<>>
                  THEN StringAt(m[KeyErrorLower].obj, KeyMessageUpper)
             ELSE IF IsMapAt(m, KeyErrorUpper)
                     /\ StringAt(m[KeyErrorUpper].obj, KeyMessageLower) # <<>>
                  THEN StringAt(m[KeyErrorUpper].obj, KeyMessageLower)
             ELSE IF IsMapAt(m, KeyErrorUpper)
                     /\ StringAt(m[KeyErrorUpper].obj, KeyMessageUpper) # <<>>
                  THEN StringAt(m[KeyErrorUpper].obj, KeyMessageUpper)
             ELSE <<>>

\* cloudtrail.ExtractMessageFromResponseElements, the exported copy
ExtractMessageFromResponseElements(responseElements) ==
    IF responseElements.isNil THEN <<>>
    ELSE LET m == responseElements.m
         IN  IF StringAt(m, KeyMessageLower) # <<>> THEN StringAt(m, KeyMessageLower)
             ELSE IF StringAt(m, KeyMessageUpper) # <<>> THEN StringAt(m, KeyMessageUpper)
             ELSE IF IsMapAt(m, KeyErrorLower)
                     /\ StringAt(m[KeyErrorLower].obj, KeyMessageLower) # <<>>
                  THEN StringAt(m[KeyErrorLower].obj, KeyMessageLower)
             ELSE IF IsMapAt(m, KeyErrorLower)
                     /\ StringAt(m[KeyErrorLower].obj, KeyMessageUpper) # <<>>
                  THEN StringAt(m[KeyErrorLower].obj, KeyMessageUpper)
             ELSE IF IsMapAt(m, KeyErrorUpper)
                     /\ StringAt(m[KeyErrorUpper].obj, KeyMessageLower) # <<>>
                  THEN StringAt(m[KeyErrorUpper].obj, KeyMessageLower)
             ELSE IF IsMapAt(m, KeyErrorUpper)
                     /\ StringAt(m[KeyErrorUpper].obj, KeyMessageUpper) # <<>>
                  THEN StringAt(m[KeyErrorUpper].obj, KeyMessageUpper)
             ELSE <<>>

\* ------------------------------------------------------------ match scorer
\* variant: any payload counts as error information
hasErrorInformationAnyPayload(event) ==
    \/ event.ErrorCode # <<>>
    \/ event.ErrorMessage # <<>>
    \/ ~event.ResponseElements.isNil

hasErrorInformation(event) ==
    IF event.ErrorCode # <<>> \/ event.ErrorMessage # <<>> THEN TRUE
    ELSE IF ~event.ResponseElements.isNil
         THEN extractMessageFromResponseElements(event.ResponseElements) # <<>>
         ELSE FALSE

\* variant: the strings of the event are compared without lower-casing them
matchesResourceIdentifierCaseSensitive(cfnError, trailEvent) ==
    IF cfnError.LogicalResourceId = <<>> THEN FALSE
    ELSE LET resourceId == ToLower(cfnError.LogicalResourceId)
             m == trailEvent.ResponseElements.m
         IN  \/ Contains(trailEvent.EventName, resourceId)
             \/ Contains(trailEvent.ErrorMessage, resourceId)
             \/ /\ ~trailEvent.ResponseElements.isNil
                /\ \E k \in DOMAIN m :
                      /\ m[k].kind = "string"
                      /\ Contains(m[k].str, resourceId)

matchesResourceIdentifier(cfnError, trailEvent) ==
    IF cfnError.LogicalResourceId = <<>> THEN FALSE
    ELSE LET resourceId == ToLower(cfnError.LogicalResourceId)
             m == trailEvent.ResponseElements.m
         IN  \/ Contains(ToLower(trailEvent.EventName), resourceId)
             \/ Contains(ToLower(trailEvent.ErrorMessage), resourceId)
             \/ /\ ~trailEvent.ResponseElements.isNil
                /\ \E k \in DOMAIN m :
                      /\ m[k].kind = "string"
                      /\ Contains(ToLower(m[k].str), resourceId)

TypeSeparator == <<":", ":">>

matchesResourceType(cfnError, trailEvent) ==
    IF cfnError.ResourceType = <<>> \/ trailEvent.EventSource = <<>> THEN FALSE
    ELSE LET resourceType == ToLower(cfnError.ResourceType)
             eventSource == ToLower(trailEvent.EventSource)
             parts == Split(resourceType, TypeSeparator)
         IN  /\ Len(parts) >= 2
             /\ Contains(eventSource, ToLower(parts[2]))

ServiceWisdom == <<"w","i","s","d","o","m">>
ServiceQConnect == <<"q","c","o","n","n","e","c","t">>

\* cloudtrail.extractServiceName: the service name CloudTrail uses for a resource type
extractServiceName(resourceType) ==
    LET parts == Split(resourceType, TypeSeparator)
    IN  IF Len(parts) >= 2
        THEN IF ToLower(parts[2]) = ServiceWisdom THEN ServiceQConnect
             ELSE ToLower(parts[2])
        ELSE <<>>

\* variant: the two bonuses swapped
calculateMatchScoreSwapped(cfnError, trailEvent) ==
    IF ~hasErrorInformation(trailEvent) THEN 0
    ELSE 1 + (IF matchesResourceIdentifier(cfnError, trailEvent) THEN 2 ELSE 0)
           + (IF matchesResourceType(cfnError, trailEvent) THEN 3 ELSE 0)

calculateMatchScore(cfnError, trailEvent) ==
    IF ~hasErrorInformation(trailEvent) THEN 0
    ELSE 1 + (IF matchesResourceIdentifier(cfnError, trailEvent) THEN 3 ELSE 0)
           + (IF matchesResourceType(cfnError, trailEvent) THEN 2 ELSE 0)

\* ------------------------------------------------------------- correlator
ErrorCodePrefix == <<"E","r","r","o","r"," ","c","o","d","e",":"," ">>

\* variant: the error code is taken before the payload message
extractDetailedMessageCodeFirst(event) ==
    IF event.ErrorMessage # <<>> THEN event.ErrorMessage
    ELSE IF event.ErrorCode # <<>> THEN ErrorCodePrefix \o event.ErrorCode
    ELSE IF ~event.ResponseElements.isNil
         THEN extractMessageFromResponseElements(event.ResponseElements)
    ELSE <<>>

\* variant: the payload is not searched for a message
extractDetailedMessageNoPayload(event) ==
    IF event.ErrorMessage # <<>> THEN event.ErrorMessage
    ELSE IF event.ErrorCode # <<>> THEN ErrorCodePrefix \o event.ErrorCode
    ELSE <<>>

\* variant: no fallback to the error code
extractDetailedMessageNoCode(event) ==
    IF event.ErrorMessage # <<>> THEN event.ErrorMessage
    ELSE IF ~event.ResponseElements.isNil
            /\ extractMessageFromResponseElements(event.ResponseElements) # <<>>
         THEN extractMessageFromResponseElements(event.ResponseElements)
    ELSE <<>>

extractDetailedMessage(event) ==
    IF event.ErrorMessage # <<>> THEN event.ErrorMessage
    ELSE IF /\ ~event.ResponseElements.isNil
            /\ extractMessageFromResponseElements(event.ResponseElements) # <<>>
         THEN extractMessageFromResponseElements(event.ResponseElements)
    ELSE IF event.ErrorCode # <<>> THEN ErrorCodePrefix \o event.ErrorCode
    ELSE <<>>

\* variant: the closer candidate replaces the best match whatever its score
PrefersCloser(score, timeDiff, bestScore, bestTimeDiff) ==
    bestScore = 0 \/ timeDiff < bestTimeDiff

\* the test that replaces the best match so far by the current candidate
PrefersCandidate(score, timeDiff, bestScore, bestTimeDiff) ==
    score > bestScore \/ (score = bestScore /\ timeDiff < bestTimeDiff)

\* the window test that skips an event
OutsideWindow(timeDiff, config) == timeDiff > config.TimeWindow

RECURSIVE FindLoop(_, _, _, _, _)
\* the loop over trailEvents from index i on; best is the best match so far,
\* bestMatch = 0 for the nil pointer, otherwise the index of the event pointed to
FindLoop(cfnError, trailEvents, config, i, best) ==
    IF i > Len(trailEvents) THEN best.bestMatch
    ELSE LET event == trailEvents[i]
             timeDiff == absTimeDiff(cfnError.Timestamp, event.EventTime)
             score == calculateMatchScore(cfnError, event)
         IN  IF OutsideWindow(timeDiff, config)
             THEN FindLoop(cfnError, trailEvents, config, i + 1, best)
             ELSE IF score = 0
             THEN FindLoop(cfnError, trailEvents, config, i + 1, best)
             ELSE IF PrefersCandidate(score, timeDiff, best.bestScore, best.bestTimeDiff)
             THEN FindLoop(cfnError, trailEvents, config, i + 1,
                           [bestMatch |-> i, bestScore |-> score, bestTimeDiff |-> timeDiff])
             ELSE FindLoop(cfnError, trailEvents, config, i + 1, best)

FindMatchingTrailEventWithConfig(cfnError, trailEvents, config) ==
    IF Len(trailEvents) = 0 THEN 0
    ELSE FindLoop(cfnError, trailEvents, config, 1,
                  [bestMatch |-> 0, bestScore |-> 0,
                   bestTimeDiff |-> WrapDuration(config.TimeWindow + 1)])

\* variant: the detailed message is not initialised with the failure's reason
CorrelateOneNoDefault(cfnError, trailEvents, config) ==
    LET matchingEvent == FindMatchingTrailEventWithConfig(cfnError, trailEvents, config)
    IN  [StackError |-> cfnError,
         CloudTrailEvent |-> matchingEvent,
         DetailedMessage |-> IF matchingEvent # 0
                             THEN extractDetailedMessage(trailEvents[matchingEvent])
                             ELSE <<>>]

\* one iteration of the loop over cfnErrors: the result for one failure
CorrelateOne(cfnError, trailEvents, config) ==
    LET matchingEvent == FindMatchingTrailEventWithConfig(cfnError, trailEvents, config)
        detailedMsg == IF matchingEvent # 0
                       THEN extractDetailedMessage(trailEvents[matchingEvent])
                       ELSE <<>>
    IN  [StackError |-> cfnError,
         CloudTrailEvent |-> matchingEvent,
         DetailedMessage |-> IF matchingEvent # 0 /\ detailedMsg # <<>>
                             THEN detailedMsg
                             ELSE cfnError.ResourceStatusReason]

ResultIsMatched(r) == r.CloudTrailEvent # 0

\* variant: a failure without matching event yields no result
CorrelateMatchedOnly(errs, trailEvts, cfg) ==
    SelectSeq([i \in 1..Len(errs) |-> CorrelateOne(errs[i], trailEvts, cfg)],
              ResultIsMatched)

CorrelateErrorsWithConfig(errs, trailEvts, cfg) ==
    IF Len(errs) = 0 THEN <<>>
    ELSE [i \in 1..Len(errs) |-> CorrelateOne(errs[i], trailEvts, cfg)]

\* -------------------------------------------------------- failure classifier
generalServiceExceptionPatterns ==
    << <<"G","e","n","e","r","a","l","S","e","r","v","i","c","e",
         "E","x","c","e","p","t","i","o","n">>,
       <<"G","e","n","e","r","a","l"," ","S","e","r","v","i","c","e"," ",
         "E","x","c","e","p","t","i","o","n">>,
       <<"I","n","t","e","r","n","a","l"," ","F","a","i","l","u","r","e">>,
       <<"I","n","t","e","r","n","a","l","F","a","i","l","u","r","e">>,
       <<"S","e","r","v","i","c","e"," ","r","e","t","u","r","n","e","d"," ",
         "e","r","r","o","r">> >>

\* variant: the reason is compared as written, without lower-casing it
IsGeneralServiceExceptionCaseSensitive(reason) ==
    IF reason = <<>> THEN FALSE
    ELSE \E i \in 1..Len(generalServiceExceptionPatterns) :
            Contains(reason, ToLower(generalServiceExceptionPatterns[i]))

\* IsGeneralServiceException applied to the reason of the error
IsGeneralServiceException(reason) ==
    IF reason = <<>> THEN FALSE
    ELSE \E i \in 1..Len(generalServiceExceptionPatterns) :
            Contains(ToLower(reason), ToLower(generalServiceExceptionPatterns[i]))

\* ------------------------------------------------------------------ inputs
\* the timestamp of a failure of today, and event times around it
Now == MaxDuration + 3
FarTime == Now + MaxDuration + 2

IdAb == <<"A","b">>
IdZq == <<"Z","q">>
TypeLambda == <<"A","W","S",":",":","L","a","m","b","d","a",":",":",
                "F","u","n","c","t","i","o","n">>
TypeWisdom == <<"A","W","S",":",":","W","i","s","d","o","m",":",":",
                "A","I","P","r","o","m","p","t">>
TypeNoService == <<"C","u","s","t","o","m">>
SourceLambda == <<"l","a","m","b","d","a",".","a","m","a","z","o","n","a","w","s",".","c","o","m">>
SourceQConnect == <<"q","c","o","n","n","e","c","t",".","a","m","a","z","o","n","a","w","s",".","c","o","m">>
ReasonGeneric == <<"I","n","t","e","r","n","a","l"," ","F","a","i","l","u","r","e">>
ReasonSpecific == <<"d","e","n","i","e","d">>
NameWithId == <<"P","u","t","A","B">>
NamePlain == <<"P","u","t">>
MsgWithId == <<"a","b"," ","b","a","d">>
MsgPlain == <<"n","o">>
CodeE == <<"E","1">>
KeyOther == <<"o","t","h","e","r">>
KeyList == <<"l","i","s","t">>

\* analyzer.StackError
StackError(ts, type, id, reason) ==
    [Timestamp |-> ts, ResourceType |-> type, LogicalResourceId |-> id,
     ResourceStatus |-> "CREATE_FAILED", ResourceStatusReason |-> reason,
     EventId |-> "id", IsGeneralServiceException |-> IsGeneralServiceException(reason)]

\* analyzer.CloudTrailEvent (UserIdentity is read by no function of the model)
CloudTrailEvent(time, name, source, re, code, msg) ==
    [EventTime |-> time, EventName |-> name, EventSource |-> source,
     ResponseElements |-> re, ErrorCode |-> code, ErrorMessage |-> msg]

Payloads ==
    { NilMap,
      GoMap(<<>>),
      GoMap(KeyMessageLower :> StrVal(<<"m","1">>)),
      GoMap(KeyMessageUpper :> StrVal(<<"a","B">>)),
      GoMap((KeyMessageLower :> NumVal)
            @@ (KeyErrorLower :> MapVal(KeyMessageLower :> LeafStr(<<"e","m">>)))),
      GoMap(KeyErrorUpper :> MapVal(KeyMessageUpper :> LeafStr(<<"a","b">>))),
      GoMap(KeyOther :> StrVal(<<"x","A","b","x">>)),
      GoMap(IdAb :> StrVal(<<"z","z">>)),
      GoMap((KeyMessageLower :> StrVal(<<>>)) @@ (KeyMessageUpper :> StrVal(<<"M","2">>))),
      GoMap((KeyErrorLower :> StrVal(<<"s">>))
            @@ (KeyErrorUpper :> MapVal(KeyMessageLower :> LeafStr(<<"E","3">>)))),
      GoMap((KeyMessageLower :> StrVal(<<"t","o","p">>))
            @@ (KeyErrorLower :> MapVal(KeyMessageLower :> LeafStr(<<"n","e","s","t">>)))),
      GoMap((KeyErrorLower :> MapVal((KeyMessageLower :> LeafNum)
                                     @@ (KeyMessageUpper :> LeafStr(<<"e","M">>))))
            @@ (KeyList :> ListVal)),
      GoMap((KeyMessageLower :> NullVal)
            @@ (KeyErrorLower :> MapVal(KeyMessageUpper :> LeafStr(<<>>)))
            @@ (KeyOther :> MapVal(KeyOther :> LeafStr(IdAb)))) }

\* one failure and one event, every field of the scorer varied
PairFailures ==
    { StackError(Now, type, id, reason) :
        type \in {<<>>, TypeLambda, TypeWisdom, TypeNoService},
        id \in {<<>>, IdAb, IdZq},
        reason \in {<<>>, ReasonGeneric} }

PairEvents ==
    { CloudTrailEvent(Now + 1, name, source, re, code, msg) :
        name \in {NamePlain, NameWithId},
        source \in {<<>>, SourceLambda, SourceQConnect},
        re \in Payloads,
        code \in {<<>>, CodeE},
        msg \in {<<>>, MsgPlain, MsgWithId} }

\* lists of failures and events, the times and the scores varied
ListFailures ==
    { StackError(Now, TypeLambda, IdAb, ReasonGeneric),
      StackError(Now - 1, <<>>, <<>>, <<>>),
      StackError(ZeroTime, TypeLambda, IdAb, ReasonSpecific) }

ListEventTimes ==
    { Now - DefaultTimeWindow, Now - 1, Now + 1, Now + DefaultTimeWindow + 1, FarTime }

\* no error information but the resource id everywhere; an error code only;
\* an error message that names the resource
EventNoInfo(t) ==
    CloudTrailEvent(t, NameWithId, SourceLambda, GoMap(KeyOther :> StrVal(IdAb)), <<>>, <<>>)
EventCode(t) == CloudTrailEvent(t, NamePlain, <<>>, NilMap, CodeE, <<>>)
EventMsg(t) == CloudTrailEvent(t, NamePlain, SourceLambda, NilMap, <<>>, MsgWithId)

ListEvents ==
    { EventNoInfo(Now + 1) }
    \cup { EventCode(t) : t \in ListEventTimes }
    \cup { EventMsg(t) : t \in ListEventTimes }

FewEvents ==
    { EventNoInfo(Now + 1), EventCode(Now + DefaultTimeWindow + 1), EventMsg(Now + DefaultTimeWindow) }

TimeWindows == {DefaultTimeWindow, MaxDuration}

SeqsUpTo(S, n) == UNION { [1..k -> S] : k \in 0..n }

\* ----------------------------------------------------------- state machine
VARIABLES
    cfnErrors,          \* []analyzer.StackError handed to the correlator
    trailEvents,        \* []analyzer.CloudTrailEvent handed to the correlator
    config,             \* CorrelationConfig
    correlatedErrors,   \* the []analyzer.CorrelatedError returned
    scores,             \* scores[i][j]: calculateMatchScore(cfnErrors[i], trailEvents[j])
    pc,                 \* the position of the call that the behaviour follows
    payload,            \* the responseElements handed to the message extractors
    message,            \* the strings the two message extractors returned
    stackEvents,        \* the stack events handed to ExtractErrors
    stackErrors,        \* the errors ExtractErrors returned
    summary,            \* the three counts GetCorrelationSummary returned
    runs,               \* two calls of the correlator on the same inputs, step by step
    errors,             \* the stack errors handed to filterErrorsByDate
    referenceDate,      \* its reference date
    filtered,           \* the stack errors it returned
    stackPages,         \* the pages of stack summaries that ListStacks serves
    nextToken,          \* GetLatestStack: the page to request next, 0 after the last
    latestStackName,    \* GetLatestStack: the name of the latest stack so far
    latestTime,         \* GetLatestStack: the greatest time so far
    latestStack,        \* what GetLatestStack returned
    entry,              \* the function that was called: "run" or "ValidateStackExists"
    args,               \* os.Args[1:]
    aws,                \* what CloudFormation answers to ListStacks and DescribeStacks
    stackName,          \* the stack name of run, or the argument of ValidateStackExists
    calls,              \* the requests sent to AWS so far
    runErr,             \* the error returned, "nil" for none
    todayErrors,        \* analyzeStack: the stack errors of today
    trailStore,         \* the events CloudTrail holds for the user AWSCloudFormation
    ctClient,           \* queryCloudTrailForErrors: "none", "created" or "failed"
    errIndex,           \* queryCloudTrailForErrors: the stack error the loop is at
    searches,           \* the calls of SearchForStackErrors so far
    allTrailEvents,     \* queryCloudTrailForErrors: the events collected so far
    analysis,           \* what analyzeStack returned
    eventPages,         \* the pages of stack events that DescribeStackEvents serves
    eventsToken,        \* GetStackEvents: nextToken, 0 for nil, p for the token that page p returned
    tokensSent,         \* the NextToken of every DescribeStackEvents request so far
    allEvents,          \* GetStackEvents: the events collected so far
    stackEventsResult,  \* what GetStackEvents returned
    filters,            \* SearchCloudTrailEvents: the filters argument
    trailPages,         \* the pages that LookupEvents serves, per resource name and without attribute
    lookupRequests,     \* the LookupEvents requests sent so far
    lookupToken,        \* SearchCloudTrailEvents: nextToken, 0 for nil
    foundEvents,        \* SearchCloudTrailEvents: allEvents, the events collected so far
    searchResult        \* what SearchCloudTrailEvents returned

correlatorVars == <<cfnErrors, trailEvents, config, correlatedErrors, scores>>
extractorVars == <<payload, message>>
classifierVars == <<stackEvents, stackErrors>>
summaryVars == <<summary>>
runVars == <<runs>>
filterVars == <<errors, referenceDate, filtered>>
latestVars == <<stackPages, nextToken, latestStackName, latestTime, latestStack>>
mainVars == <<entry, args, aws, stackName, calls, runErr>>
analysisVars == <<todayErrors, trailStore, ctClient, errIndex, searches, allTrailEvents, analysis>>
eventsVars == <<eventPages, eventsToken, tokensSent, allEvents, stackEventsResult>>
searchVars == <<filters, trailPages, lookupRequests, lookupToken, foundEvents, searchResult>>

vars == <<correlatorVars, extractorVars, classifierVars, summaryVars, runVars,
          filterVars, latestVars, mainVars,
          analysisVars,
          eventsVars,
          searchVars, pc>>

\* the variables of the other calls, which a call leaves alone
outsideCorrelator == <<extractorVars, classifierVars, summaryVars, runVars, filterVars,
    latestVars, mainVars,
    analysisVars,
    eventsVars,
    searchVars>>
outsideExtractor == <<correlatorVars, classifierVars, summaryVars, runVars, filterVars,
    latestVars, mainVars,
    analysisVars,
    eventsVars,
    searchVars>>
outsideClassifier == <<correlatorVars, extractorVars, summaryVars, runVars, filterVars,
    latestVars, mainVars,
    analysisVars,
    eventsVars,
    searchVars>>
outsideSummary == <<correlatorVars, extractorVars, classifierVars, runVars, filterVars,
    latestVars, mainVars,
    analysisVars,
    eventsVars,
    searchVars>>
outsideRuns == <<correlatorVars, extractorVars, classifierVars, summaryVars, filterVars,
    latestVars, mainVars,
    analysisVars,
    eventsVars,
    searchVars>>
outsideFilter == <<correlatorVars, extractorVars, classifierVars, summaryVars, runVars,
    latestVars, mainVars,
    analysisVars,
    eventsVars,
    searchVars>>
outsideLatest == <<correlatorVars, extractorVars, classifierVars, summaryVars, runVars,
    filterVars, mainVars,
    analysisVars,
    eventsVars,
    searchVars>>
outsideMain == <<correlatorVars, extractorVars, classifierVars, summaryVars, runVars,
    filterVars, latestVars,
    analysisVars,
    eventsVars,
    searchVars>>
outsideAnalysis == <<correlatorVars,
    extractorVars,
    classifierVars,
    summaryVars,
    runVars,
    filterVars,
    latestVars,
    mainVars,
    eventsVars,
    searchVars>>
outsideEvents == <<correlatorVars,
    extractorVars,
    classifierVars,
    summaryVars,
    runVars,
    filterVars,
    latestVars,
    mainVars,
    analysisVars,
    searchVars>>
outsideSearch == <<correlatorVars,
    extractorVars,
    classifierVars,
    summaryVars,
    runVars,
    filterVars,
    latestVars,
    mainVars,
    analysisVars,
    eventsVars>>

CorrelatorIdle ==
    /\ cfnErrors = <<>>
    /\ trailEvents = <<>>
    /\ config = DefaultConfig
    /\ correlatedErrors = <<>>
    /\ scores = <<>>

ExtractorIdle ==
    /\ payload = NilMap
    /\ message = <<>>

ClassifierIdle ==
    /\ stackEvents = <<>>
    /\ stackErrors = <<>>

NoSummary == [total |-> 0, withCloudTrail |-> 0, generalServiceExceptions |-> 0]

SummaryIdle == summary = NoSummary

RunsIdle == runs = <<>>

FilterIdle ==
    /\ errors = <<>>
    /\ referenceDate = ZeroTime
    /\ filtered = <<>>

NotReturned == [name |-> <<>>, err |-> "none"]

LatestIdle ==
    /\ stackPages = <<>>
    /\ nextToken = 0
    /\ latestStackName = <<>>
    /\ latestTime = ZeroTime
    /\ latestStack = NotReturned

NoAnswers == [latest |-> <<>>, describe |-> "found"]

MainIdle ==
    /\ entry = "none"
    /\ args = <<>>
    /\ aws = NoAnswers
    /\ stackName = <<>>
    /\ calls = <<>>
    /\ runErr = "nil"

NoAnalysis == [err |-> "none", Errors |-> <<>>, GeneralErrors |-> 0, DetailedErrors |-> 0]

AnalysisIdle ==
    /\ todayErrors = <<>>
    /\ trailStore = <<>>
    /\ ctClient = "none"
    /\ errIndex = 0
    /\ searches = <<>>
    /\ allTrailEvents = <<>>
    /\ analysis = NoAnalysis

NoStackEvents == [events |-> <<>>, err |-> "none"]

EventsIdle ==
    /\ eventPages = <<>>
    /\ eventsToken = 0
    /\ tokensSent = <<>>
    /\ allEvents = <<>>
    /\ stackEventsResult = NoStackEvents

NoPages == [all |-> <<>>, byResource |-> <<>>]
NoSearchResult == [events |-> <<>>, err |-> "none"]

SearchIdle ==
    /\ filters = <<>>
    /\ trailPages = NoPages
    /\ lookupRequests = <<>>
    /\ lookupToken = 0
    /\ foundEvents = <<>>
    /\ searchResult = NoSearchResult

OutsideCorrelatorIdle == ExtractorIdle /\ ClassifierIdle /\ SummaryIdle /\ RunsIdle /\ FilterIdle
    /\ LatestIdle /\ MainIdle
    /\ AnalysisIdle
    /\ EventsIdle
    /\ SearchIdle
    /\ SearchIdle
OutsideExtractorIdle == CorrelatorIdle /\ ClassifierIdle /\ SummaryIdle /\ RunsIdle /\ FilterIdle
    /\ LatestIdle /\ MainIdle
    /\ AnalysisIdle
    /\ EventsIdle
    /\ SearchIdle
    /\ SearchIdle
OutsideClassifierIdle == CorrelatorIdle /\ ExtractorIdle /\ SummaryIdle /\ RunsIdle /\ FilterIdle
    /\ LatestIdle /\ MainIdle
    /\ AnalysisIdle
    /\ EventsIdle
    /\ SearchIdle
    /\ SearchIdle

\* the arguments of the call: one failure and one event; one failure and a
\* list of events; a list of failures and a list of a few events
InitInputs ==
    \/ \E f \in PairFailures, e \in PairEvents :
         /\ cfnErrors = <<f>>
         /\ trailEvents = <<e>>
         /\ config = DefaultConfig
    \/ \E f \in ListFailures, es \in SeqsUpTo(ListEvents, MaxEvents) :
         /\ cfnErrors = <<f>>
         /\ trailEvents = es
         /\ config = DefaultConfig
    \/ \E fs \in SeqsUpTo(ListFailures, MaxErrors), es \in SeqsUpTo(FewEvents, MaxEvents),
          w \in TimeWindows :
         /\ cfnErrors = fs
         /\ trailEvents = es
         /\ config = [TimeWindow |-> w]

Init ==
    /\ InitInputs
    /\ correlatedErrors = <<>>
    /\ scores = <<>>
    /\ pc = "input"
    /\ OutsideCorrelatorIdle

\* a call of CorrelateErrorsWithConfig(cfnErrors, trailEvents, config)
Correlate ==
    /\ pc = "input"
    /\ correlatedErrors' = CorrelateErrorsWithConfig(cfnErrors, trailEvents, config)
    /\ pc' = "correlated"
    /\ UNCHANGED <<cfnErrors, trailEvents, config, scores>>
    /\ UNCHANGED outsideCorrelator

\* the calls of calculateMatchScore for every failure and every event
Score ==
    /\ pc = "input"
    /\ scores' = [i \in 1..Len(cfnErrors) |->
                    [j \in 1..Len(trailEvents) |->
                        calculateMatchScore(cfnErrors[i], trailEvents[j])]]
    /\ pc' = "scored"
    /\ UNCHANGED <<cfnErrors, trailEvents, config, correlatedErrors>>
    /\ UNCHANGED outsideCorrelator

Next == Correlate \/ Score

Spec == Init /\ [][Next]_vars

\* ------------------------------------------------------ message extractor
\* the strings a payload holds at the six places that are searched, one per place
AtMessage == <<"t","1">>
AtMessageUpper == <<"t","2">>
AtErrorMessage == <<"n","1">>
AtErrorMessageUpper == <<"n","2">>
AtErrorUpperMessage == <<"n","3">>
AtErrorUpperMessageUpper == <<"n","4">>
\* the strings it holds in a list and two levels down
InList == <<"l","i","s","t","e","d">>
Deep == <<"d","e","e","p">>

Absent == [kind |-> "absent", str |-> <<>>, obj |-> <<>>]
BoolVal == [kind |-> "bool", str |-> <<>>, obj |-> <<>>]
ListOf(items) == [kind |-> "list", str |-> <<>>, obj |-> items]

\* the map that holds choice[k] at every key k whose choice is not Absent
MapOf(choice) ==
    [k \in {x \in DOMAIN choice : choice[x].kind # "absent"} |-> choice[k]]

\* what a key that should hold a string may hold
StringPlace(s) ==
    { Absent, StrVal(<<>>), StrVal(s), NumVal, BoolVal, NullVal,
      ListOf(<<StrVal(InList)>>), MapVal(KeyMessageLower :> StrVal(Deep)) }

NestedPlace(s) ==
    { Absent, StrVal(<<>>), StrVal(s), MapVal(KeyMessageLower :> StrVal(Deep)) }

\* what a key that should hold a mapping may hold
MapPlace(s1, s2) ==
    { Absent, StrVal(InList), ListOf(<<StrVal(InList)>>) }
    \cup { MapVal(MapOf((KeyMessageLower :> a) @@ (KeyMessageUpper :> b))) :
             a \in NestedPlace(s1), b \in NestedPlace(s2) }

ExtractorPayloads ==
    { NilMap }
    \cup { GoMap(MapOf((KeyMessageLower :> a) @@ (KeyMessageUpper :> b)
                       @@ (KeyErrorLower :> c) @@ (KeyErrorUpper :> d))) :
             a \in StringPlace(AtMessage),
             b \in StringPlace(AtMessageUpper),
             c \in MapPlace(AtErrorMessage, AtErrorMessageUpper),
             d \in MapPlace(AtErrorUpperMessage, AtErrorUpperMessageUpper) }

InitExtract ==
    /\ payload \in ExtractorPayloads
    /\ message = <<>>
    /\ pc = "extract"
    /\ OutsideExtractorIdle

\* the calls of the two message extractors on the payload
Extract ==
    /\ pc = "extract"
    /\ message' = [private |-> extractMessageFromResponseElements(payload),
                   exported |-> ExtractMessageFromResponseElements(payload)]
    /\ pc' = "extracted"
    /\ UNCHANGED payload
    /\ UNCHANGED outsideExtractor

NextExtract == Extract

SpecExtract == InitExtract /\ [][NextExtract]_vars

\* ---------------------------------------------------------- error extractor
MaxStackEvents == 3

\* variant: IMPORT_ROLLBACK_FAILED is not a failed status
failedStatusesWithoutImportRollback ==
    { "CREATE_FAILED", "DELETE_FAILED", "UPDATE_FAILED",
      "IMPORT_FAILED", "ROLLBACK_FAILED" }

failedStatuses ==
    { "CREATE_FAILED", "DELETE_FAILED", "UPDATE_FAILED",
      "IMPORT_FAILED", "IMPORT_ROLLBACK_FAILED", "ROLLBACK_FAILED" }

isFailedStatus(status) == status \in failedStatuses

\* a pointer to a value, and the nil pointers
Ptr(v) == [isNil |-> FALSE, val |-> v]
NilString == [isNil |-> TRUE, val |-> <<>>]
NilTime == [isNil |-> TRUE, val |-> ZeroTime]

safeString(s) == IF s.isNil THEN <<>> ELSE s.val
safeTime(t) == IF t.isNil THEN ZeroTime ELSE t.val

ExtractErrors(events) ==
    LET failed == SelectSeq(events, LAMBDA event : isFailedStatus(event.ResourceStatus))
    IN  [i \in 1..Len(failed) |->
            [Timestamp |-> safeTime(failed[i].Timestamp),
             ResourceType |-> safeString(failed[i].ResourceType),
             LogicalResourceId |-> safeString(failed[i].LogicalResourceId),
             ResourceStatus |-> failed[i].ResourceStatus,
             ResourceStatusReason |-> safeString(failed[i].ResourceStatusReason),
             EventId |-> safeString(failed[i].EventId),
             IsGeneralServiceException |->
                 IsGeneralServiceException(safeString(failed[i].ResourceStatusReason))]]

ReasonInternalOccurred ==
    <<"I","n","t","e","r","n","a","l"," ","F","a","i","l","u","r","e"," ",
      "o","c","c","u","r","r","e","d">>
ReasonPolicyDenied ==
    <<"R","O","L","L","B","A","C","K","_","C","O","M","P","L","E","T","E",
      " ","b","e","c","a","u","s","e"," ","p","o","l","i","c","y"," ",
      "X"," ","d","e","n","i","e","d">>
ReasonUpperInternal ==
    <<"I","N","T","E","R","N","A","L","F","A","I","L","U","R","E">>
ReasonLowerGeneral ==
    <<"g","e","n","e","r","a","l","s","e","r","v","i","c","e","e","x","c",
      "e","p","t","i","o","n">>
ReasonSpacedGeneral ==
    <<"A"," ","G","e","n","e","r","a","l"," ","S","e","r","v","i","c","e",
      " ","E","x","c","e","p","t","i","o","n">>
ReasonServiceReturned ==
    <<"t","h","e"," ","s","e","r","v","i","c","e"," ","r","e","t","u","r",
      "n","e","d"," ","E","R","R","O","R"," ","5","0","0">>
ReasonTwoSpaces ==
    <<"I","n","t","e","r","n","a","l"," "," ","F","a","i","l","u","r","e">>
ReasonSwapped ==
    <<"F","a","i","l","u","r","e"," ","I","n","t","e","r","n","a","l">>
ReasonPrefixOnly ==
    <<"S","e","r","v","i","c","e"," ","r","e","t","u","r","n","e","d">>

\* types.StackEvent, the fields that ExtractErrors reads
StackEvent(id, ts, type, logical, status, reason) ==
    [EventId |-> id, Timestamp |-> ts, ResourceType |-> type,
     LogicalResourceId |-> logical, ResourceStatus |-> status,
     ResourceStatusReason |-> reason]

ResourceStatuses ==
    failedStatuses
    \cup { "CREATE_COMPLETE", "CREATE_IN_PROGRESS", "DELETE_SKIPPED",
           "UPDATE_ROLLBACK_FAILED", "ROLLBACK_IN_PROGRESS", "" }

StatusReasons ==
    { NilString, Ptr(<<>>), Ptr(ReasonGeneric), Ptr(ReasonSpecific),
      Ptr(ReasonInternalOccurred), Ptr(ReasonPolicyDenied), Ptr(ReasonUpperInternal),
      Ptr(ReasonLowerGeneral), Ptr(ReasonSpacedGeneral), Ptr(ReasonServiceReturned),
      Ptr(ReasonTwoSpaces), Ptr(ReasonSwapped), Ptr(ReasonPrefixOnly) }

EventIdOne == <<"e","1">>
EventIdTwo == <<"e","2">>

\* one event of every status with every reason, with and without its other fields
SingleStackEvents ==
    { StackEvent(Ptr(EventIdOne), Ptr(Now), Ptr(TypeLambda), Ptr(IdAb), status, reason) :
        status \in ResourceStatuses, reason \in StatusReasons }
    \cup { StackEvent(NilString, NilTime, NilString, NilString, status, reason) :
        status \in ResourceStatuses, reason \in {NilString, Ptr(ReasonGeneric)} }

\* the events of the lists: two failures, a success, and a failure without fields
ListStackEvents ==
    { StackEvent(Ptr(EventIdOne), Ptr(Now), Ptr(TypeLambda), Ptr(IdAb),
                 "CREATE_FAILED", Ptr(ReasonGeneric)),
      StackEvent(Ptr(EventIdTwo), Ptr(Now + 1), Ptr(TypeWisdom), Ptr(IdZq),
                 "ROLLBACK_FAILED", Ptr(ReasonSpecific)),
      StackEvent(Ptr(EventIdTwo), Ptr(Now + 1), Ptr(TypeWisdom), Ptr(IdZq),
                 "UPDATE_COMPLETE", NilString),
      StackEvent(NilString, NilTime, NilString, NilString,
                 "IMPORT_ROLLBACK_FAILED", NilString) }

InitClassify ==
    /\ \/ \E event \in SingleStackEvents : stackEvents = <<event>>
       \/ stackEvents \in SeqsUpTo(ListStackEvents, MaxStackEvents)
    /\ stackErrors = <<>>
    /\ pc = "events"
    /\ OutsideClassifierIdle

\* a call of ExtractErrors on the stack events
Extractor ==
    /\ pc = "events"
    /\ stackErrors' = ExtractErrors(stackEvents)
    /\ pc' = "errors"
    /\ UNCHANGED stackEvents
    /\ UNCHANGED outsideClassifier

NextClassify == Extractor

SpecClassify == InitClassify /\ [][NextClassify]_vars

\* ------------------------------------------------------ correlation summary
MaxSummarised == 3

\* the loop over correlatedErrors from index i on, with the counts so far
RECURSIVE SummaryLoop(_, _, _)
SummaryLoop(results, i, counts) ==
    IF i > Len(results) THEN counts
    ELSE SummaryLoop(results, i + 1,
            [total |-> counts.total,
             withCloudTrail |->
                 IF results[i].CloudTrailEvent # 0
                 THEN counts.withCloudTrail + 1 ELSE counts.withCloudTrail,
             generalServiceExceptions |->
                 IF results[i].StackError.IsGeneralServiceException
                 THEN counts.generalServiceExceptions + 1
                 ELSE counts.generalServiceExceptions])

\* variant: a result with an event is not looked at for its flag
RECURSIVE SummaryLoopElse(_, _, _)
SummaryLoopElse(results, i, counts) ==
    IF i > Len(results) THEN counts
    ELSE SummaryLoopElse(results, i + 1,
            [total |-> counts.total,
             withCloudTrail |->
                 IF results[i].CloudTrailEvent # 0
                 THEN counts.withCloudTrail + 1 ELSE counts.withCloudTrail,
             generalServiceExceptions |->
                 IF results[i].CloudTrailEvent = 0
                    /\ results[i].StackError.IsGeneralServiceException
                 THEN counts.generalServiceExceptions + 1
                 ELSE counts.generalServiceExceptions])

GetCorrelationSummaryElse(results) ==
    SummaryLoopElse(results, 1,
        [total |-> Len(results), withCloudTrail |-> 0, generalServiceExceptions |-> 0])

GetCorrelationSummary(results) ==
    SummaryLoop(results, 1,
        [total |-> Len(results), withCloudTrail |-> 0, generalServiceExceptions |-> 0])

\* no event; an event in the window of the failure at Now only; one at Now
SummaryEvents ==
    { <<>>, <<EventCode(Now + DefaultTimeWindow)>>, <<EventCode(Now), EventNoInfo(Now)>> }

\* the results of a correlation
InitSummary ==
    /\ cfnErrors \in SeqsUpTo(ListFailures, MaxSummarised)
    /\ trailEvents \in SummaryEvents
    /\ config = DefaultConfig
    /\ correlatedErrors = CorrelateErrorsWithConfig(cfnErrors, trailEvents, config)
    /\ scores = <<>>
    /\ summary = NoSummary
    /\ pc = "correlated"
    /\ ExtractorIdle
    /\ ClassifierIdle
    /\ RunsIdle
    /\ FilterIdle
    /\ LatestIdle
    /\ MainIdle
    /\ AnalysisIdle
    /\ EventsIdle
    /\ SearchIdle

\* a call of GetCorrelationSummary on the results
Summarize ==
    /\ pc = "correlated"
    /\ summary' = GetCorrelationSummary(correlatedErrors)
    /\ pc' = "summarized"
    /\ UNCHANGED outsideSummary

NextSummary == Summarize

SpecSummary == InitSummary /\ [][NextSummary]_vars

\* ------------------------------------------- two runs of the correlator
\* The range over the keys of ResponseElements visits the keys in an order
\* that the runtime chooses anew at every loop; every other step of the
\* correlator is a function of its arguments. A run is followed event by
\* event, and inside matchesResourceIdentifier key by key.
Runs == {1, 2}

\* variant: the first string value decides, whether it holds the id or not
RangeOutcomeFirstString(resourceId, m, visited, k) ==
    IF m[k].kind = "string"
    THEN IF Contains(ToLower(m[k].str), resourceId) THEN "true" ELSE "false"
    ELSE IF visited \cup {k} = DOMAIN m THEN "false"
    ELSE "next"

\* one iteration of the range loop, at key k after the keys visited:
\* return true, fall out of the loop and return false, or go on
RangeOutcome(resourceId, m, visited, k) ==
    IF m[k].kind = "string" /\ Contains(ToLower(m[k].str), resourceId) THEN "true"
    ELSE IF visited \cup {k} = DOMAIN m THEN "false"
    ELSE "next"

\* the event is scored for its resource identifier at all
ReachesIdentifier(cfnError, trailEvent, cfg) ==
    /\ ~OutsideWindow(absTimeDiff(cfnError.Timestamp, trailEvent.EventTime), cfg)
    /\ hasErrorInformation(trailEvent)

\* matchesResourceIdentifier returns before its range loop
ReturnsBeforeRange(cfnError, trailEvent) ==
    \/ cfnError.LogicalResourceId = <<>>
    \/ Contains(ToLower(trailEvent.EventName), ToLower(cfnError.LogicalResourceId))
    \/ Contains(ToLower(trailEvent.ErrorMessage), ToLower(cfnError.LogicalResourceId))
    \/ trailEvent.ResponseElements.isNil
    \/ DOMAIN trailEvent.ResponseElements.m = {}

\* what it returns then
ReturnedBeforeRange(cfnError, trailEvent) ==
    /\ cfnError.LogicalResourceId # <<>>
    /\ \/ Contains(ToLower(trailEvent.EventName), ToLower(cfnError.LogicalResourceId))
       \/ Contains(ToLower(trailEvent.ErrorMessage), ToLower(cfnError.LogicalResourceId))

\* calculateMatchScore with the value that matchesResourceIdentifier returned
calculateMatchScoreGiven(cfnError, trailEvent, idMatch) ==
    IF ~hasErrorInformation(trailEvent) THEN 0
    ELSE 1 + (IF idMatch THEN 3 ELSE 0)
           + (IF matchesResourceType(cfnError, trailEvent) THEN 2 ELSE 0)

RECURSIVE FindLoopGiven(_, _, _, _, _, _)
\* the loop of FindMatchingTrailEventWithConfig with these values
FindLoopGiven(cfnError, trailEvts, cfg, idMatches, i, best) ==
    IF i > Len(trailEvts) THEN best.bestMatch
    ELSE LET event == trailEvts[i]
             timeDiff == absTimeDiff(cfnError.Timestamp, event.EventTime)
             score == calculateMatchScoreGiven(cfnError, event, idMatches[i])
         IN  IF OutsideWindow(timeDiff, cfg)
             THEN FindLoopGiven(cfnError, trailEvts, cfg, idMatches, i + 1, best)
             ELSE IF score = 0
             THEN FindLoopGiven(cfnError, trailEvts, cfg, idMatches, i + 1, best)
             ELSE IF PrefersCandidate(score, timeDiff, best.bestScore, best.bestTimeDiff)
             THEN FindLoopGiven(cfnError, trailEvts, cfg, idMatches, i + 1,
                           [bestMatch |-> i, bestScore |-> score, bestTimeDiff |-> timeDiff])
             ELSE FindLoopGiven(cfnError, trailEvts, cfg, idMatches, i + 1, best)

\* the result of CorrelateErrorsWithConfig for one failure with these values
CorrelateGiven(cfnError, trailEvts, cfg, idMatches) ==
    LET matchingEvent ==
            IF Len(trailEvts) = 0 THEN 0
            ELSE FindLoopGiven(cfnError, trailEvts, cfg, idMatches, 1,
                     [bestMatch |-> 0, bestScore |-> 0,
                      bestTimeDiff |-> WrapDuration(cfg.TimeWindow + 1)])
        detailedMsg == IF matchingEvent # 0
                       THEN extractDetailedMessage(trailEvts[matchingEvent])
                       ELSE <<>>
    IN  << [StackError |-> cfnError,
            CloudTrailEvent |-> matchingEvent,
            DetailedMessage |-> IF matchingEvent # 0 /\ detailedMsg # <<>>
                                THEN detailedMsg
                                ELSE cfnError.ResourceStatusReason] >>

\* payloads with several keys: one, no and two strings that hold the id "Ab"
OneOfThree ==
    GoMap((KeyOther :> StrVal(<<"x","A","b","x">>)) @@ (KeyList :> StrVal(<<"z","z">>))
          @@ (KeyMessageLower :> StrVal(<<"m","1">>)))
NoneOfThree ==
    GoMap((KeyOther :> StrVal(<<"z","z">>)) @@ (KeyList :> NumVal)
          @@ (KeyMessageLower :> StrVal(MsgPlain)))
TwoOfThree ==
    GoMap((KeyOther :> StrVal(<<"a","b">>)) @@ (KeyList :> StrVal(<<"A","B">>))
          @@ (KeyErrorLower :> NullVal))

RunEvents ==
    { CloudTrailEvent(Now + 1, NamePlain, <<>>, p, CodeE, <<>>) :
        p \in {OneOfThree, NoneOfThree, TwoOfThree, NilMap} }
    \cup { CloudTrailEvent(Now + 1, NamePlain, <<>>, OneOfThree, <<>>, <<>>),
           EventMsg(Now + 1), EventNoInfo(Now + 1), EventCode(FarTime - 1) }

RunFailures ==
    { StackError(Now, TypeLambda, IdAb, ReasonGeneric),
      StackError(Now, TypeLambda, <<>>, ReasonSpecific) }

FirstEvent == [event |-> 1, visited |-> {}, idMatches |-> <<>>, result |-> <<>>]

InitRuns ==
    /\ \E cfnError \in RunFailures : cfnErrors = <<cfnError>>
    /\ trailEvents \in SeqsUpTo(RunEvents, 2)
    /\ config = DefaultConfig
    /\ correlatedErrors = <<>>
    /\ scores = <<>>
    /\ runs = [r \in Runs |-> FirstEvent]
    /\ pc = "runs"
    /\ ExtractorIdle
    /\ ClassifierIdle
    /\ SummaryIdle
    /\ FilterIdle
    /\ LatestIdle
    /\ MainIdle
    /\ AnalysisIdle
    /\ EventsIdle
    /\ SearchIdle

\* run r goes to its next event, with the value for the current one
NextEvent(r, idMatch) ==
    [runs EXCEPT ![r] = [event |-> @.event + 1, visited |-> {},
                         idMatches |-> Append(@.idMatches, idMatch),
                         result |-> <<>>]]

\* the current event of run r is skipped or settled before the range loop
NoRange(r) ==
    /\ pc = "runs"
    /\ runs[r].event <= Len(trailEvents)
    /\ LET cfnError == cfnErrors[1]
           trailEvent == trailEvents[runs[r].event]
       IN  /\ \/ ~ReachesIdentifier(cfnError, trailEvent, config)
              \/ ReturnsBeforeRange(cfnError, trailEvent)
           /\ runs' = NextEvent(r, /\ ReachesIdentifier(cfnError, trailEvent, config)
                                   /\ ReturnedBeforeRange(cfnError, trailEvent))
    /\ UNCHANGED pc
    /\ UNCHANGED outsideRuns

\* one iteration of the range loop of run r, at a key the runtime picks
RangeStep(r) ==
    /\ pc = "runs"
    /\ runs[r].event <= Len(trailEvents)
    /\ LET cfnError == cfnErrors[1]
           trailEvent == trailEvents[runs[r].event]
           m == trailEvent.ResponseElements.m
       IN  /\ ReachesIdentifier(cfnError, trailEvent, config)
           /\ ~ReturnsBeforeRange(cfnError, trailEvent)
           /\ \E k \in DOMAIN m \ runs[r].visited :
                LET outcome == RangeOutcome(ToLower(cfnError.LogicalResourceId), m,
                                            runs[r].visited, k)
                IN  runs' = IF outcome = "next"
                            THEN [runs EXCEPT ![r].visited = @ \cup {k}]
                            ELSE NextEvent(r, outcome = "true")
    /\ UNCHANGED pc
    /\ UNCHANGED outsideRuns

\* run r has scored every event and returns its result
Finish(r) ==
    /\ pc = "runs"
    /\ runs[r].event = Len(trailEvents) + 1
    /\ runs[r].result = <<>>
    /\ runs' = [runs EXCEPT ![r].result =
                   CorrelateGiven(cfnErrors[1], trailEvents, config, runs[r].idMatches)]
    /\ UNCHANGED pc
    /\ UNCHANGED outsideRuns

NextRuns == \E r \in Runs : NoRange(r) \/ RangeStep(r) \/ Finish(r)

SpecRuns == InitRuns /\ [][NextRuns]_vars

\* ------------------------------------------------------------ date filter
\* Times of this part count hours since the epoch, in UTC.
MaxFiltered == 2
HoursPerDay == 24

\* time.Date(year, month, day, 0, 0, 0, 0, time.UTC) of the day of t
StartOfDay(t) == t - (t % HoursPerDay)

KeepsError(timestamp, startOfDay, endOfDay) ==
    timestamp > startOfDay /\ timestamp < endOfDay

filterErrorsByDate(errs, refDate) ==
    LET startOfDay == StartOfDay(refDate)
        endOfDay == startOfDay + HoursPerDay
    IN  SelectSeq(errs, LAMBDA err : KeepsError(err.Timestamp, startOfDay, endOfDay))

\* the reference dates: a midnight, a morning, the last hour of the same day
ReferenceDates == { HoursPerDay, HoursPerDay + 6, 2 * HoursPerDay - 1 }

\* the timestamps: the days before and after, and the first, a middle and
\* the last hour of the day
FilterTimestamps ==
    { 0, HoursPerDay - 1, HoursPerDay, HoursPerDay + 1, HoursPerDay + 12,
      2 * HoursPerDay - 1, 2 * HoursPerDay, 2 * HoursPerDay + 1 }

FilterErrors ==
    { StackError(t, TypeLambda, IdAb, ReasonGeneric) : t \in FilterTimestamps }

InitFilter ==
    /\ errors \in SeqsUpTo(FilterErrors, MaxFiltered)
    /\ referenceDate \in ReferenceDates
    /\ filtered = <<>>
    /\ pc = "errors"
    /\ CorrelatorIdle
    /\ ExtractorIdle
    /\ ClassifierIdle
    /\ SummaryIdle
    /\ RunsIdle
    /\ LatestIdle
    /\ MainIdle
    /\ AnalysisIdle
    /\ EventsIdle
    /\ SearchIdle

\* the call of filterErrorsByDate in analyzeStack
FilterByDate ==
    /\ pc = "errors"
    /\ filtered' = filterErrorsByDate(errors, referenceDate)
    /\ pc' = "filtered"
    /\ UNCHANGED <<errors, referenceDate>>
    /\ UNCHANGED outsideFilter

NextFilter == FilterByDate

SpecFilter == InitFilter /\ [][NextFilter]_vars

\* ------------------------------------------------------------ latest stack
\* Times of this part count days; every stack was created after the zero time.
MaxStacks == 3

NameOne == <<"s","1">>
NameTwo == <<"s","2">>
NameThree == <<"s","3">>

\* types.StackSummary, the fields that GetLatestStack reads
StackSummary(name, updated, created) ==
    [StackName |-> name, LastUpdatedTime |-> updated, CreationTime |-> created]

\* a stack never updated; one updated last; one created late but updated
\* early; a summary without name, the newest; one without times; one never
\* updated and as new as the second
StackSummaries ==
    { StackSummary(Ptr(NameOne), NilTime, Ptr(3)),
      StackSummary(Ptr(NameTwo), Ptr(9), Ptr(1)),
      StackSummary(Ptr(NameThree), Ptr(5), Ptr(7)),
      StackSummary(NilString, Ptr(20), Ptr(2)),
      StackSummary(Ptr(NameOne), NilTime, NilTime),
      StackSummary(Ptr(NameThree), NilTime, Ptr(9)) }

\* the pages that ListStacks serves for these stacks; no stack gives one empty page
PagesOf(stacks, size) ==
    LET n == IF Len(stacks) = 0 THEN 1 ELSE (Len(stacks) + size - 1) \div size
    IN  [p \in 1..n |->
            SubSeq(stacks, (p - 1) * size + 1,
                   IF p * size < Len(stacks) THEN p * size ELSE Len(stacks))]

RECURSIVE SummariesLoop(_, _, _)
\* the loop over the summaries of one page from index i on
SummariesLoop(summaries, i, latest) ==
    IF i > Len(summaries) THEN latest
    ELSE LET stackSummary == summaries[i]
             hasTime == ~stackSummary.LastUpdatedTime.isNil \/ ~stackSummary.CreationTime.isNil
             stackTime == IF ~stackSummary.LastUpdatedTime.isNil
                          THEN stackSummary.LastUpdatedTime.val
                          ELSE stackSummary.CreationTime.val
         IN  IF ~hasTime THEN SummariesLoop(summaries, i + 1, latest)
             ELSE IF stackTime > latest.time
             THEN SummariesLoop(summaries, i + 1,
                     [time |-> stackTime,
                      name |-> IF ~stackSummary.StackName.isNil
                               THEN stackSummary.StackName.val ELSE latest.name])
             ELSE SummariesLoop(summaries, i + 1, latest)

InitLatest ==
    /\ \E stacks \in SeqsUpTo(StackSummaries, MaxStacks) :
         \E size \in {1, MaxStacks} : stackPages = PagesOf(stacks, size)
    /\ nextToken = 1
    /\ latestStackName = <<>>
    /\ latestTime = ZeroTime
    /\ latestStack = NotReturned
    /\ pc = "list"
    /\ CorrelatorIdle
    /\ ExtractorIdle
    /\ ClassifierIdle
    /\ SummaryIdle
    /\ RunsIdle
    /\ FilterIdle
    /\ MainIdle
    /\ AnalysisIdle
    /\ EventsIdle
    /\ SearchIdle

\* one iteration of the loop of GetLatestStack: ListStacks serves a page
ListStacksPage ==
    /\ pc = "list"
    /\ nextToken # 0
    /\ LET latest == SummariesLoop(stackPages[nextToken], 1,
                                   [time |-> latestTime, name |-> latestStackName])
       IN  /\ latestTime' = latest.time
           /\ latestStackName' = latest.name
    /\ nextToken' = IF nextToken < Len(stackPages) THEN nextToken + 1 ELSE 0
    /\ UNCHANGED <<stackPages, latestStack, pc>>
    /\ UNCHANGED outsideLatest

\* ListStacks returns an error
ListStacksFails ==
    /\ pc = "list"
    /\ nextToken # 0
    /\ latestStack' = [name |-> <<>>, err |-> "failed to list CloudFormation stacks"]
    /\ pc' = "returned"
    /\ UNCHANGED <<stackPages, nextToken, latestStackName, latestTime>>
    /\ UNCHANGED outsideLatest

\* after the last page
ReturnLatest ==
    /\ pc = "list"
    /\ nextToken = 0
    /\ latestStack' = IF latestStackName = <<>>
                      THEN [name |-> <<>>, err |-> "ErrNoStacksFound"]
                      ELSE [name |-> latestStackName, err |-> "nil"]
    /\ pc' = "returned"
    /\ UNCHANGED <<stackPages, nextToken, latestStackName, latestTime>>
    /\ UNCHANGED outsideLatest

NextLatest == ListStacksPage \/ ListStacksFails \/ ReturnLatest

SpecLatest == InitLatest /\ [][NextLatest]_vars

\* -------------------------------------------------------------------- run
MaxNameLength == 128

Digits == {"0","1","2","3","4","5","6","7","8","9"}
Letters ==
    { UpperChars[i] : i \in 1..Len(UpperChars) } \cup { LowerChars[i] : i \in 1..Len(LowerChars) }

\* stackNameRegex.MatchString: ^[a-zA-Z][a-zA-Z0-9-]*$ on the whole text
stackNameRegex(name) ==
    /\ Len(name) >= 1
    /\ name[1] \in Letters
    /\ \A i \in 2..Len(name) : name[i] \in Letters \cup Digits \cup {"-"}

ValidateStackName(name) ==
    IF name = <<>> THEN "ErrEmptyStackName"
    ELSE IF Len(name) > MaxNameLength THEN "ErrStackNameTooLong"
    ELSE IF ~stackNameRegex(name) THEN "ErrInvalidStackNameFormat"
    ELSE "nil"

\* what DescribeStacks makes of the answer of CloudFormation
DescribeStacksError(describe) ==
    IF describe \in {"does not exist", "no stacks"} THEN "ErrStackNotFound"
    ELSE IF describe = "other error" THEN "failed to describe stack"
    ELSE "nil"

\* variant: the stack is described before the format of its name is tested
ValidateStackExistsDescribeFirst(name, describe) ==
    IF DescribeStacksError(describe) # "nil"
    THEN [err |-> DescribeStacksError(describe), requests |-> <<"DescribeStacks">>]
    ELSE [err |-> ValidateStackName(name), requests |-> <<"DescribeStacks">>]

\* the error of ValidateStackExists and the requests it sends
ValidateStackExists(name, describe) ==
    IF ValidateStackName(name) # "nil"
    THEN [err |-> ValidateStackName(name), requests |-> <<>>]
    ELSE [err |-> DescribeStacksError(describe), requests |-> <<"DescribeStacks">>]

\* variant: the error of the validation is logged and the analysis goes on
AfterValidationAlways(err) == "analyzeStack"

\* where run goes after ValidateStackExists
AfterValidation(err) == IF err # "nil" THEN "returned" ELSE "analyzeStack"

NameValid == <<"m","y","-","S","t","a","c","k","1">>
NameLetter == <<"a">>
NameDigitFirst == <<"9","s","t","a","c","k">>
NameUnderscore == <<"m","y","_","s","t","a","c","k">>
NameHyphenFirst == <<"-","x">>
NameNewline == <<"a","b","\n">>
NameLongest == [i \in 1..MaxNameLength |-> "a"]
NameTooLong == [i \in 1..(MaxNameLength + 1) |-> "a"]

StackNames ==
    { <<>>, NameValid, NameLetter, NameDigitFirst, NameUnderscore, NameHyphenFirst,
      NameNewline, NameLongest, NameTooLong }

\* the answers of CloudFormation: the name of the latest stack, or none when
\* the listing fails or finds no stack; and the answer to DescribeStacks
Answers ==
    [latest : {<<>>, NameValid},
     describe : {"found", "does not exist", "no stacks", "other error"}]

InitMain ==
    /\ \/ /\ entry = "run"
          /\ args \in SeqsUpTo({NameValid, NameDigitFirst}, 2)
                      \cup { <<name>> : name \in StackNames }
          /\ stackName = <<>>
          /\ pc = "parseArgs"
       \/ /\ entry = "ValidateStackExists"
          /\ args = <<>>
          /\ stackName \in StackNames
          /\ pc = "ValidateStackExists"
    /\ aws \in Answers
    /\ calls = <<>>
    /\ runErr = "nil"
    /\ CorrelatorIdle
    /\ ExtractorIdle
    /\ ClassifierIdle
    /\ SummaryIdle
    /\ RunsIdle
    /\ FilterIdle
    /\ LatestIdle
    /\ AnalysisIdle
    /\ EventsIdle
    /\ SearchIdle

\* run: parseArgs
ParseArgs ==
    /\ pc = "parseArgs"
    /\ IF Len(args) = 0
       THEN /\ pc' = "NewClient"
            /\ UNCHANGED <<stackName, runErr>>
       ELSE IF Len(args) = 1
       THEN IF ValidateStackName(args[1]) # "nil"
            THEN /\ runErr' = ValidateStackName(args[1])
                 /\ pc' = "returned"
                 /\ UNCHANGED stackName
            ELSE /\ stackName' = args[1]
                 /\ pc' = "NewClient"
                 /\ UNCHANGED runErr
       ELSE /\ runErr' = "usage"
            /\ pc' = "returned"
            /\ UNCHANGED stackName
    /\ UNCHANGED <<entry, args, aws, calls>>
    /\ UNCHANGED outsideMain

\* run: cfnclient.NewClient, which loads the configuration or fails
NewClient ==
    /\ pc = "NewClient"
    /\ \E ok \in BOOLEAN :
         IF ok THEN pc' = "resolveStackName" /\ UNCHANGED runErr
         ELSE /\ runErr' = "failed to initialize CloudFormation client"
              /\ pc' = "returned"
    /\ UNCHANGED <<entry, args, aws, stackName, calls>>
    /\ UNCHANGED outsideMain

\* run: resolveStackName, with GetLatestStack when no name was given
ResolveStackName ==
    /\ pc = "resolveStackName"
    /\ IF stackName # <<>>
       THEN /\ pc' = "ValidateStackExists"
            /\ UNCHANGED <<stackName, calls, runErr>>
       ELSE /\ calls' = Append(calls, "ListStacks")
            /\ IF aws.latest = <<>>
               THEN /\ runErr' = "failed to find latest stack"
                    /\ pc' = "returned"
                    /\ UNCHANGED stackName
               ELSE /\ stackName' = aws.latest
                    /\ pc' = "ValidateStackExists"
                    /\ UNCHANGED runErr
    /\ UNCHANGED <<entry, args, aws>>
    /\ UNCHANGED outsideMain

\* the call of ValidateStackExists, by run or by itself
ValidateExists ==
    /\ pc = "ValidateStackExists"
    /\ LET validated == ValidateStackExists(stackName, aws.describe)
       IN  /\ calls' = calls \o validated.requests
           /\ IF entry = "run"
              THEN /\ pc' = AfterValidation(validated.err)
                   /\ runErr' = IF pc' = "returned" THEN validated.err ELSE runErr
              ELSE /\ pc' = "returned"
                   /\ runErr' = validated.err
    /\ UNCHANGED <<entry, args, aws, stackName>>
    /\ UNCHANGED outsideMain

\* run: analyzeStack retrieves the stack events and, when it finds failures
\* to look up, queries CloudTrail; then the results are printed
AnalyzeStack ==
    /\ pc = "analyzeStack"
    /\ \/ /\ calls' = Append(calls, "DescribeStackEvents")
          /\ runErr' = "failed to retrieve stack events"
       \/ /\ \E lookups \in {<<>>, <<"LookupEvents">>} :
                calls' = Append(calls, "DescribeStackEvents") \o lookups
          /\ UNCHANGED runErr
    /\ pc' = "returned"
    /\ UNCHANGED <<entry, args, aws, stackName>>
    /\ UNCHANGED outsideMain

NextMain == ParseArgs \/ NewClient \/ ResolveStackName \/ ValidateExists \/ AnalyzeStack

SpecMain == InitMain /\ [][NextMain]_vars

\* ----------------------------------------------- cloudtrail package helpers
\* variant: any payload counts as error information
HasErrorInformationAnyPayload(event) ==
    \/ event.ErrorCode # <<>>
    \/ event.ErrorMessage # <<>>
    \/ ~event.ResponseElements.isNil

HasErrorInformation(event) ==
    IF event.ErrorCode # <<>> \/ event.ErrorMessage # <<>> THEN TRUE
    ELSE IF ~event.ResponseElements.isNil
         THEN ExtractMessageFromResponseElements(event.ResponseElements) # <<>>
         ELSE FALSE

GetDetailedErrorMessage(event) ==
    IF event.ErrorMessage # <<>> THEN event.ErrorMessage
    ELSE IF ~event.ResponseElements.isNil
            /\ ExtractMessageFromResponseElements(event.ResponseElements) # <<>>
         THEN ExtractMessageFromResponseElements(event.ResponseElements)
    ELSE IF event.ErrorCode # <<>> THEN ErrorCodePrefix \o event.ErrorCode
    ELSE <<>>

FilterErrorEvents(events) == SelectSeq(events, HasErrorInformation)

matchesService(event, serviceName) ==
    Contains(ToLower(event.EventSource), ToLower(serviceName))

\* ------------------------------------------------------------ analyzeStack
\* Times count minutes, as in the correlator.
SearchBuffer == 10

\* variant: the search covers the correlation window only
SearchRangeOfWindow(timestamp) ==
    [StartTime |-> timestamp - DefaultTimeWindow, EndTime |-> timestamp + DefaultTimeWindow]

\* the TimeRange of SearchForStackErrors
SearchRange(timestamp) ==
    [StartTime |-> timestamp - SearchBuffer, EndTime |-> timestamp + SearchBuffer]

\* what LookupEvents serves of the store for a time range, all pages together
LookupEvents(store, timeRange) ==
    SelectSeq(store, LAMBDA event : /\ event.EventTime >= timeRange.StartTime
                                    /\ event.EventTime <= timeRange.EndTime)

\* the events of a SearchForStackErrors that succeeds
SearchForStackErrors(store, stackError) ==
    LET events == LookupEvents(store, SearchRange(stackError.Timestamp))
        serviceName == extractServiceName(stackError.ResourceType)
    IN  IF serviceName # <<>>
        THEN SelectSeq(events, LAMBDA event : matchesService(event, serviceName))
        ELSE events

\* variant: every stack error counts
CountAllErrors(errs) == Len(errs)

\* the loop that counts the GeneralServiceExceptions
CountGeneralExceptions(errs) ==
    Cardinality({ i \in 1..Len(errs) : errs[i].IsGeneralServiceException })

\* variant: a failed search ends the query without events
AfterFailedSearchNone(collected) == <<>>

\* the events collected so far after a search that failed: the loop continues
AfterFailedSearch(collected) == collected

EventQConnect(t) == CloudTrailEvent(t, NamePlain, SourceQConnect, NilMap, CodeE, <<>>)

\* what CloudTrail holds: nothing; events in and out of the range of the
\* search and of the window, with and without error information; one event
\* at the start of the range; one event that has a payload only, for every
\* payload
TrailStores ==
    { <<>>,
      << EventMsg(Now + 1), EventQConnect(Now + DefaultTimeWindow + 3), EventNoInfo(Now + 1),
         EventMsg(Now + SearchBuffer + 2) >>,
      << CloudTrailEvent(Now - SearchBuffer, NamePlain, SourceLambda, NilMap, CodeE, <<>>),
         EventQConnect(Now + 2) >> }
    \cup { << CloudTrailEvent(Now + 1, NamePlain, SourceLambda, re, <<>>, <<>>) >> :
             re \in Payloads \ {NilMap} }

\* flagged failures of three resource types, and a failure that is not flagged
TodayFailures ==
    { StackError(Now, TypeLambda, IdAb, ReasonGeneric),
      StackError(Now + 3, TypeWisdom, IdZq, ReasonGeneric),
      StackError(Now, TypeLambda, IdAb, ReasonSpecific),
      StackError(Now + 1, TypeNoService, <<>>, ReasonGeneric) }

InitAnalysis ==
    /\ todayErrors \in SeqsUpTo(TodayFailures, MaxErrors)
    /\ trailStore \in TrailStores
    /\ ctClient = "none"
    /\ errIndex = 0
    /\ searches = <<>>
    /\ allTrailEvents = <<>>
    /\ analysis = NoAnalysis
    /\ pc = "analyzeStack"
    /\ CorrelatorIdle
    /\ ExtractorIdle
    /\ ClassifierIdle
    /\ SummaryIdle
    /\ RunsIdle
    /\ FilterIdle
    /\ LatestIdle
    /\ MainIdle
    /\ EventsIdle
    /\ SearchIdle

\* analyzeStack from the errors of today to the decision to query CloudTrail
StartAnalysis ==
    /\ pc = "analyzeStack"
    /\ IF Len(todayErrors) = 0
       THEN /\ analysis' = [err |-> "nil", Errors |-> <<>>,
                            GeneralErrors |-> 0, DetailedErrors |-> 0]
            /\ pc' = "analysed"
       ELSE /\ pc' = IF CountGeneralExceptions(todayErrors) > 0
                     THEN "cloudtrail.NewClient" ELSE "CorrelateErrors"
            /\ UNCHANGED analysis
    /\ UNCHANGED <<todayErrors, trailStore, ctClient, errIndex, searches, allTrailEvents>>
    /\ UNCHANGED outsideAnalysis

\* queryCloudTrailForErrors: the client is created, or its creation fails
NewTrailClient ==
    /\ pc = "cloudtrail.NewClient"
    /\ \E ok \in BOOLEAN :
         IF ok THEN /\ ctClient' = "created"
                    /\ errIndex' = 1
                    /\ pc' = "SearchForStackErrors"
         ELSE /\ ctClient' = "failed"
              /\ pc' = "CorrelateErrors"
              /\ UNCHANGED errIndex
    /\ UNCHANGED <<todayErrors, trailStore, searches, allTrailEvents, analysis>>
    /\ UNCHANGED outsideAnalysis

\* the position after the stack error at errIndex
AfterError == IF errIndex + 1 > Len(todayErrors) THEN "CorrelateErrors" ELSE "SearchForStackErrors"

\* the loop passes a stack error that is not flagged
SkipError ==
    /\ pc = "SearchForStackErrors"
    /\ ~todayErrors[errIndex].IsGeneralServiceException
    /\ errIndex' = errIndex + 1
    /\ pc' = AfterError
    /\ UNCHANGED <<todayErrors, trailStore, ctClient, searches, allTrailEvents, analysis>>
    /\ UNCHANGED outsideAnalysis

\* the search for a flagged stack error fails
SearchFails ==
    /\ pc = "SearchForStackErrors"
    /\ todayErrors[errIndex].IsGeneralServiceException
    /\ searches' = Append(searches, [error |-> errIndex, failed |-> TRUE,
                                     timeRange |-> SearchRange(todayErrors[errIndex].Timestamp)])
    /\ allTrailEvents' = AfterFailedSearch(allTrailEvents)
    /\ errIndex' = errIndex + 1
    /\ pc' = AfterError
    /\ UNCHANGED <<todayErrors, trailStore, ctClient, analysis>>
    /\ UNCHANGED outsideAnalysis

\* the search for a flagged stack error succeeds
SearchSucceeds ==
    /\ pc = "SearchForStackErrors"
    /\ todayErrors[errIndex].IsGeneralServiceException
    /\ searches' = Append(searches, [error |-> errIndex, failed |-> FALSE,
                                     timeRange |-> SearchRange(todayErrors[errIndex].Timestamp)])
    /\ allTrailEvents' = allTrailEvents
            \o FilterErrorEvents(SearchForStackErrors(trailStore, todayErrors[errIndex]))
    /\ errIndex' = errIndex + 1
    /\ pc' = AfterError
    /\ UNCHANGED <<todayErrors, trailStore, ctClient, analysis>>
    /\ UNCHANGED outsideAnalysis

\* analyzeStack correlates, counts and returns
ReturnAnalysis ==
    /\ pc = "CorrelateErrors"
    /\ LET correlated == CorrelateErrorsWithConfig(todayErrors, allTrailEvents, DefaultConfig)
       IN  analysis' = [err |-> "nil",
                        Errors |-> correlated,
                        GeneralErrors |-> CountGeneralExceptions(todayErrors),
                        DetailedErrors |->
                            Cardinality({ i \in 1..Len(correlated) :
                                            correlated[i].CloudTrailEvent # 0 })]
    /\ pc' = "analysed"
    /\ UNCHANGED <<todayErrors, trailStore, ctClient, errIndex, searches, allTrailEvents>>
    /\ UNCHANGED outsideAnalysis

NextAnalysis ==
    \/ StartAnalysis
    \/ NewTrailClient
    \/ SkipError
    \/ SearchFails
    \/ SearchSucceeds
    \/ ReturnAnalysis

SpecAnalysis == InitAnalysis /\ [][NextAnalysis]_vars

\* ---------------------------------------------------------- GetStackEvents
MaxPages == 3

\* variant: the events of the pages before the failed request are returned
EventsOnErrorPartial(events) == events

\* the events returned with an error: nil
EventsOnError(events) == <<>>

PagedEvents ==
    { StackEvent(Ptr(EventIdOne), Ptr(Now), Ptr(TypeLambda), Ptr(IdAb),
                 "CREATE_FAILED", Ptr(ReasonGeneric)),
      StackEvent(Ptr(EventIdTwo), Ptr(Now + 1), Ptr(TypeWisdom), Ptr(IdZq),
                 "UPDATE_COMPLETE", NilString) }

\* one to MaxPages pages of no, one or two events
InitEvents ==
    /\ \E n \in 1..MaxPages : eventPages \in [1..n -> SeqsUpTo(PagedEvents, 2)]
    /\ eventsToken = 0
    /\ tokensSent = <<>>
    /\ allEvents = <<>>
    /\ stackEventsResult = NoStackEvents
    /\ pc = "DescribeStackEvents"
    /\ CorrelatorIdle
    /\ ExtractorIdle
    /\ ClassifierIdle
    /\ SummaryIdle
    /\ RunsIdle
    /\ FilterIdle
    /\ LatestIdle
    /\ MainIdle
    /\ AnalysisIdle
    /\ SearchIdle

\* one iteration of the loop: the request for the page after eventsToken is
\* answered, by the last page without NextToken
DescribeStackEventsPage ==
    /\ pc = "DescribeStackEvents"
    /\ LET page == eventsToken + 1
           outputToken == IF page < Len(eventPages) THEN page ELSE 0
       IN  /\ tokensSent' = Append(tokensSent, eventsToken)
           /\ allEvents' = allEvents \o eventPages[page]
           /\ IF outputToken = 0
              THEN /\ stackEventsResult' = [events |-> allEvents', err |-> "nil"]
                   /\ pc' = "events returned"
                   /\ UNCHANGED eventsToken
              ELSE /\ eventsToken' = outputToken
                   /\ UNCHANGED <<stackEventsResult, pc>>
    /\ UNCHANGED eventPages
    /\ UNCHANGED outsideEvents

\* the request fails
DescribeStackEventsFails ==
    /\ pc = "DescribeStackEvents"
    /\ tokensSent' = Append(tokensSent, eventsToken)
    /\ stackEventsResult' = [events |-> EventsOnError(allEvents),
                             err |-> "failed to describe stack events"]
    /\ pc' = "events returned"
    /\ UNCHANGED <<eventPages, eventsToken, allEvents>>
    /\ UNCHANGED outsideEvents

NextEvents == DescribeStackEventsPage \/ DescribeStackEventsFails

SpecEvents == InitEvents /\ [][NextEvents]_vars

\* -------------------------------------------------- SearchCloudTrailEvents
MaxFilters == 2

ResourceNames == {"bucket", "queue", "topic"}

\* an event as LookupEvents serves it: its JSON can be parsed or not
RawEvent(event, valid) == [event |-> event, validJson |-> valid]

\* the loop over output.Events: the events that parseCloudTrailEvent accepts
ParsedEvents(page) ==
    LET valid == SelectSeq(page, LAMBDA raw : raw.validJson)
    IN  [i \in 1..Len(valid) |-> valid[i].event]

\* the lookup attribute of every request: the first filter, none ("") without filters
LookupAttribute(fs) == IF Len(fs) = 0 THEN "" ELSE fs[1]

\* the pages that LookupEvents serves for an attribute
PagesFor(store, attribute) ==
    IF attribute = "" THEN store.all ELSE store.byResource[attribute]

\* three stores: two pages for the bucket, one for the queue, none with events
\* for the topic; nothing at all; an event with broken JSON
TrailPages ==
    { [all |-> << <<RawEvent(EventMsg(Now), TRUE), RawEvent(EventQConnect(Now + 1), TRUE)>>,
                  <<RawEvent(EventCode(Now + 2), TRUE)>> >>,
       byResource |-> [r \in ResourceNames |->
          IF r = "bucket" THEN << <<RawEvent(EventMsg(Now), TRUE)>>,
                                  <<RawEvent(EventQConnect(Now + 1), TRUE)>> >>
          ELSE IF r = "queue" THEN << <<RawEvent(EventCode(Now + 2), TRUE)>> >>
          ELSE << <<>> >>]],
      [all |-> << <<>> >>, byResource |-> [r \in ResourceNames |-> << <<>> >>]],
      [all |-> << <<RawEvent(EventMsg(Now), FALSE), RawEvent(EventCode(Now + 2), TRUE)>> >>,
       byResource |-> [r \in ResourceNames |->
          IF r = "topic" THEN << <<RawEvent(EventMsg(Now), FALSE)>>,
                                 <<RawEvent(EventCode(Now + 2), TRUE)>> >>
          ELSE << <<RawEvent(EventMsg(Now), FALSE)>> >>]] }

InitSearch ==
    /\ filters \in SeqsUpTo(ResourceNames, MaxFilters)
    /\ trailPages \in TrailPages
    /\ lookupRequests = <<>>
    /\ lookupToken = 0
    /\ foundEvents = <<>>
    /\ searchResult = NoSearchResult
    /\ pc = "LookupEvents"
    /\ CorrelatorIdle
    /\ ExtractorIdle
    /\ ClassifierIdle
    /\ SummaryIdle
    /\ RunsIdle
    /\ FilterIdle
    /\ LatestIdle
    /\ MainIdle
    /\ AnalysisIdle
    /\ EventsIdle

\* one iteration of the loop: a request is answered, by the last page without
\* NextToken
LookupEventsPage ==
    /\ pc = "LookupEvents"
    /\ LET attribute == LookupAttribute(filters)
           pages == PagesFor(trailPages, attribute)
           page == lookupToken + 1
       IN  /\ lookupRequests' = Append(lookupRequests, [attribute |-> attribute, token |-> lookupToken])
           /\ foundEvents' = foundEvents \o ParsedEvents(pages[page])
           /\ IF page < Len(pages)
              THEN /\ lookupToken' = page
                   /\ UNCHANGED <<searchResult, pc>>
              ELSE /\ searchResult' = [events |-> foundEvents', err |-> "nil"]
                   /\ pc' = "search returned"
                   /\ UNCHANGED lookupToken
    /\ UNCHANGED <<filters, trailPages>>
    /\ UNCHANGED outsideSearch

\* a request fails
LookupEventsFails ==
    /\ pc = "LookupEvents"
    /\ lookupRequests' = Append(lookupRequests, [attribute |-> LookupAttribute(filters),
                                   token |-> lookupToken])
    /\ searchResult' = [events |-> <<>>, err |-> "failed to lookup CloudTrail events"]
    /\ pc' = "search returned"
    /\ UNCHANGED <<filters, trailPages, lookupToken, foundEvents>>
    /\ UNCHANGED outsideSearch

NextSearch == LookupEventsPage \/ LookupEventsFails

SpecSearch == InitSearch /\ [][NextSearch]_vars

\* ------------------------------------------------------------------ claims
\* the absolute difference of two instants, as a number
TrueTimeDiff(t1, t2) == IF t1 >= t2 THEN t1 - t2 ELSE t2 - t1

\* the events whose time differs from the failure's by at most TimeWindow
InWindowEvents(f) ==
    { j \in 1..Len(trailEvents) :
        TrueTimeDiff(f.Timestamp, trailEvents[j].EventTime) <= config.TimeWindow }

\* the in-window events with a positive score
Candidates(f) ==
    { j \in InWindowEvents(f) : calculateMatchScore(f, trailEvents[j]) > 0 }

\* the candidates with the highest score
TopCandidates(f) ==
    { j \in Candidates(f) :
        \A k \in Candidates(f) :
            calculateMatchScore(f, trailEvents[k]) <= calculateMatchScore(f, trailEvents[j]) }

\* an event with no error code, no error message and no extractable message
NoErrorInfo(e) ==
    /\ e.ErrorCode = <<>>
    /\ e.ErrorMessage = <<>>
    /\ extractMessageFromResponseElements(e.ResponseElements) = <<>>

\* the lower-cased resource id is a substring of the lower-cased event name,
\* error message or of a string-typed top-level value of the payload
IdInEvent(f, e) ==
    LET id == ToLower(f.LogicalResourceId)
    IN  \/ Contains(ToLower(e.EventName), id)
        \/ Contains(ToLower(e.ErrorMessage), id)
        \/ \E k \in DOMAIN e.ResponseElements.m :
              /\ e.ResponseElements.m[k].kind = "string"
              /\ Contains(ToLower(e.ResponseElements.m[k].str), id)

Returned == pc = "correlated"

\* C1: the matched event of every result has a positive score that no in-window
\* event with a positive score exceeds, and a result has no matched event only
\* when no in-window event has a positive score.
C1_MaxScore ==
    Returned =>
        \A i \in 1..Len(correlatedErrors) :
            LET f == correlatedErrors[i].StackError
                m == correlatedErrors[i].CloudTrailEvent
            IN  /\ m = 0 => Candidates(f) = {}
                /\ m # 0 =>
                     /\ m \in 1..Len(trailEvents)
                     /\ calculateMatchScore(f, trailEvents[m]) > 0
                     /\ \A j \in Candidates(f) :
                           calculateMatchScore(f, trailEvents[j])
                               <= calculateMatchScore(f, trailEvents[m])

\* a failure matched to a candidate although a candidate of lower score is closer
C1_Witness ==
    /\ Returned
    /\ \E i \in 1..Len(correlatedErrors) :
          LET f == correlatedErrors[i].StackError
              m == correlatedErrors[i].CloudTrailEvent
          IN  /\ m \in Candidates(f)
              /\ \E j \in Candidates(f) :
                    /\ calculateMatchScore(f, trailEvents[j])
                           < calculateMatchScore(f, trailEvents[m])
                    /\ TrueTimeDiff(f.Timestamp, trailEvents[j].EventTime)
                           < TrueTimeDiff(f.Timestamp, trailEvents[m].EventTime)

\* C2: when several in-window candidates share the maximum score, the matched
\* event is the one of them with the smallest absolute time difference to the
\* failure and, among those, the one with the lowest index.
C2_TieBreak ==
    Returned =>
        \A i \in 1..Len(correlatedErrors) :
            LET f == correlatedErrors[i].StackError
                m == correlatedErrors[i].CloudTrailEvent
                D(j) == TrueTimeDiff(f.Timestamp, trailEvents[j].EventTime)
            IN  Cardinality(TopCandidates(f)) >= 2 =>
                    /\ m \in TopCandidates(f)
                    /\ \A j \in TopCandidates(f) :
                          D(m) < D(j) \/ (D(m) = D(j) /\ m <= j)

\* C3: one result per failure, the i-th result carrying the i-th failure unchanged.
C3_OneResultPerFailure ==
    Returned =>
        /\ Len(correlatedErrors) = Len(cfnErrors)
        /\ \A i \in 1..Len(cfnErrors) : correlatedErrors[i].StackError = cfnErrors[i]

\* two different failures correlated against events, the first one without
\* and the second one with a matched event
C3_Witness ==
    /\ Returned
    /\ Len(cfnErrors) >= 2
    /\ Len(correlatedErrors) >= 2
    /\ cfnErrors[1] # cfnErrors[2]
    /\ Len(trailEvents) >= 1
    /\ correlatedErrors[1].CloudTrailEvent = 0
    /\ correlatedErrors[2].CloudTrailEvent # 0

\* C4: the matched event of a result is never an event whose time differs from
\* the failure's by more than TimeWindow.
C4_NeverOutsideWindow ==
    Returned =>
        \A i \in 1..Len(correlatedErrors) :
            LET f == correlatedErrors[i].StackError
                m == correlatedErrors[i].CloudTrailEvent
            IN  m # 0 => m \in InWindowEvents(f)

\* C5: an event without error code, error message and extractable message is
\* never the matched event of a result.
C5_NoInfoNeverMatched ==
    Returned =>
        \A i \in 1..Len(correlatedErrors) :
            LET m == correlatedErrors[i].CloudTrailEvent
            IN  m # 0 => ~NoErrorInfo(trailEvents[m])

\* an in-window event without error information whose name and payload hold the
\* resource id and whose source holds the service, next to a correlated failure
C5_Witness ==
    /\ Returned
    /\ \E i \in 1..Len(correlatedErrors) :
          LET f == correlatedErrors[i].StackError
          IN  \E j \in InWindowEvents(f) :
                 /\ NoErrorInfo(trailEvents[j])
                 /\ f.LogicalResourceId # <<>>
                 /\ IdInEvent(f, trailEvents[j])
                 /\ matchesResourceType(f, trailEvents[j])
                 /\ correlatedErrors[i].CloudTrailEvent # j

\* C6: the detailed message of a matched result is the event's error message if
\* non-empty, else the message extracted from the payload if non-empty, else
\* "Error code: " and the error code if non-empty, else the failure's reason.
C6_MessagePrecedence ==
    Returned =>
        \A i \in 1..Len(correlatedErrors) :
            LET r == correlatedErrors[i]
                e == trailEvents[r.CloudTrailEvent]
                x == extractMessageFromResponseElements(e.ResponseElements)
            IN  r.CloudTrailEvent # 0 =>
                    r.DetailedMessage =
                        IF e.ErrorMessage # <<>> THEN e.ErrorMessage
                        ELSE IF x # <<>> THEN x
                        ELSE IF e.ErrorCode # <<>> THEN ErrorCodePrefix \o e.ErrorCode
                        ELSE r.StackError.ResourceStatusReason

\* a matched event with no error message but both a payload message and a code
C6_Witness ==
    /\ Returned
    /\ \E i \in 1..Len(correlatedErrors) :
          LET r == correlatedErrors[i]
              e == trailEvents[r.CloudTrailEvent]
          IN  /\ r.CloudTrailEvent # 0
              /\ e.ErrorMessage = <<>>
              /\ e.ErrorCode # <<>>
              /\ extractMessageFromResponseElements(e.ResponseElements) # <<>>
              /\ r.DetailedMessage = extractMessageFromResponseElements(e.ResponseElements)

\* C7: the detailed message of a result without matched event is the failure's
\* reason, the empty string included.
C7_UnmatchedKeepsReason ==
    Returned =>
        \A i \in 1..Len(correlatedErrors) :
            correlatedErrors[i].CloudTrailEvent = 0 =>
                correlatedErrors[i].DetailedMessage
                    = correlatedErrors[i].StackError.ResourceStatusReason

\* two unmatched results, one with an empty and one with a non-empty reason
C7_Witness ==
    /\ Returned
    /\ \E i, k \in 1..Len(correlatedErrors) :
          /\ correlatedErrors[i].CloudTrailEvent = 0
          /\ correlatedErrors[k].CloudTrailEvent = 0
          /\ correlatedErrors[i].StackError.ResourceStatusReason = <<>>
          /\ correlatedErrors[i].DetailedMessage = <<>>
          /\ correlatedErrors[k].StackError.ResourceStatusReason # <<>>

\* C8: the detailed message of a result is not empty if the failure's reason is
\* not empty or the matched event holds an error message or a payload message.
C8_MessageNotEmpty ==
    Returned =>
        \A i \in 1..Len(correlatedErrors) :
            LET r == correlatedErrors[i]
                e == trailEvents[r.CloudTrailEvent]
            IN  \/ r.StackError.ResourceStatusReason # <<>>
                \/ /\ r.CloudTrailEvent # 0
                   /\ \/ e.ErrorMessage # <<>>
                      \/ extractMessageFromResponseElements(e.ResponseElements) # <<>>
                => r.DetailedMessage # <<>>

\* a failure with an empty reason matched to an event whose only message is in
\* the payload
C8_Witness ==
    /\ Returned
    /\ \E i \in 1..Len(correlatedErrors) :
          LET r == correlatedErrors[i]
              e == trailEvents[r.CloudTrailEvent]
          IN  /\ r.StackError.ResourceStatusReason = <<>>
              /\ r.CloudTrailEvent # 0
              /\ e.ErrorMessage = <<>>
              /\ e.ErrorCode = <<>>
              /\ r.DetailedMessage # <<>>

Scored == pc = "scored"

\* C9: the score is 0 exactly for an event without error information, otherwise
\* 1, plus 3 with the resource-identifier check, plus 2 with the resource-type
\* check; it is one of 0, 1, 3, 4, 6.
C9_ScoreValues ==
    Scored =>
        \A i \in 1..Len(scores) : \A j \in 1..Len(scores[i]) :
            LET f == cfnErrors[i]
                e == trailEvents[j]
            IN  /\ scores[i][j] = 0 <=> NoErrorInfo(e)
                /\ scores[i][j] # 0 =>
                     scores[i][j] = 1 + (IF matchesResourceIdentifier(f, e) THEN 3 ELSE 0)
                                      + (IF matchesResourceType(f, e) THEN 2 ELSE 0)
                /\ scores[i][j] \in {0, 1, 3, 4, 6}

\* a pair scored with both bonuses
C9_Witness ==
    /\ Scored
    /\ \E i \in 1..Len(scores) : \E j \in 1..Len(scores[i]) :
          /\ scores[i][j] = 6
          /\ matchesResourceIdentifier(cfnErrors[i], trailEvents[j])
          /\ matchesResourceType(cfnErrors[i], trailEvents[j])

\* C10 as stated: for an event with error information the +3 bonus is in the
\* score exactly when the lower-cased resource id is a substring of the
\* lower-cased event name, error message or a string-typed top-level value.
C10_IdBonusAsStated ==
    Scored =>
        \A i \in 1..Len(scores) : \A j \in 1..Len(scores[i]) :
            ~NoErrorInfo(trailEvents[j]) =>
                (scores[i][j] \in {4, 6} <=> IdInEvent(cfnErrors[i], trailEvents[j]))

\* C10 amended: ... exactly when the resource id is not empty and, lower-cased,
\* is a substring of the lower-cased event name, error message or a
\* string-typed top-level value of the payload.
C10_IdBonus ==
    Scored =>
        \A i \in 1..Len(scores) : \A j \in 1..Len(scores[i]) :
            ~NoErrorInfo(trailEvents[j]) =>
                (scores[i][j] \in {4, 6}
                    <=> /\ cfnErrors[i].LogicalResourceId # <<>>
                        /\ IdInEvent(cfnErrors[i], trailEvents[j]))

\* the bonus given for a string value of the payload that holds the resource id
\* in another case, the event name and the error message not holding it
C10_Witness ==
    /\ Scored
    /\ \E i \in 1..Len(scores) : \E j \in 1..Len(scores[i]) :
          LET id == ToLower(cfnErrors[i].LogicalResourceId)
              e == trailEvents[j]
          IN  /\ id # <<>>
              /\ scores[i][j] \in {4, 6}
              /\ ~Contains(ToLower(e.EventName), id)
              /\ ~Contains(ToLower(e.ErrorMessage), id)
              /\ \E k \in DOMAIN e.ResponseElements.m :
                    /\ e.ResponseElements.m[k].kind = "string"
                    /\ ~Contains(e.ResponseElements.m[k].str, id)


\* C11: an event with error information gets the +2 bonus when the resource
\* type has at least two "::" segments and its second segment, lower-cased and
\* renamed (wisdom -> qconnect), is a substring of the lower-cased event source.
C11_TypeBonusWithRenaming ==
    Scored =>
        \A i \in 1..Len(scores) : \A j \in 1..Len(scores[i]) :
            LET f == cfnErrors[i]
                e == trailEvents[j]
            IN  /\ ~NoErrorInfo(e)
                /\ Len(Split(f.ResourceType, TypeSeparator)) >= 2
                /\ Contains(ToLower(e.EventSource), extractServiceName(f.ResourceType))
                => scores[i][j] \in {3, 6}


\* the string at a key of a map, the empty string when the key is missing or
\* holds no string
FieldString(m, key) ==
    IF key \in DOMAIN m /\ m[key].kind = "string" THEN m[key].str ELSE <<>>

\* the mapping at a key of a map, the empty mapping when the key is missing or
\* holds no mapping
FieldMap(m, key) ==
    IF key \in DOMAIN m /\ m[key].kind = "map" THEN m[key].obj ELSE <<>>

\* the strings at the six places, in the order of their priority
PlacesInOrder(p) ==
    IF p.isNil THEN <<>>
    ELSE << FieldString(p.m, KeyMessageLower),
            FieldString(p.m, KeyMessageUpper),
            FieldString(FieldMap(p.m, KeyErrorLower), KeyMessageLower),
            FieldString(FieldMap(p.m, KeyErrorLower), KeyMessageUpper),
            FieldString(FieldMap(p.m, KeyErrorUpper), KeyMessageLower),
            FieldString(FieldMap(p.m, KeyErrorUpper), KeyMessageUpper) >>

\* the first non-empty string of a sequence of strings, or the empty string
FirstNonEmpty(strs) ==
    IF \E i \in 1..Len(strs) : strs[i] # <<>>
    THEN strs[CHOOSE i \in 1..Len(strs) :
                 strs[i] # <<>> /\ \A k \in 1..(i - 1) : strs[k] = <<>>]
    ELSE <<>>

Extracted == pc = "extracted"

\* C12: both extractors return the first non-empty string in the order message,
\* Message, error.message, error.Message, Error.message, Error.Message, and the
\* empty string when there is none or no payload.
C12_ExtractorPriority ==
    Extracted =>
        /\ message.private = FirstNonEmpty(PlacesInOrder(payload))
        /\ message.exported = FirstNonEmpty(PlacesInOrder(payload))

\* a payload with a string at "Message" and at every nested place, none at "message"
C12_Witness ==
    /\ Extracted
    /\ ~payload.isNil
    /\ PlacesInOrder(payload)[1] = <<>>
    /\ \A i \in 2..6 : PlacesInOrder(payload)[i] # <<>>
    /\ message.private = AtMessageUpper

\* the payload without one of its top-level keys
WithoutKey(p, key) == GoMap([k \in DOMAIN p.m \ {key} |-> p.m[k]])

\* the payload without one key of the mapping at one of its top-level keys
WithoutNestedKey(p, key, nested) ==
    GoMap([k \in DOMAIN p.m |->
             IF k = key
             THEN MapVal([n \in DOMAIN p.m[k].obj \ {nested} |-> p.m[k].obj[n]])
             ELSE p.m[k]])

\* C13: a key that holds another type than the one searched for counts as
\* missing: the extractors return what they return for the payload without
\* the key; and they never return a string of a list or of a second level.
C13_MismatchIsNotFound ==
    Extracted =>
        /\ message.private \notin {InList, Deep}
        /\ message.exported \notin {InList, Deep}
        /\ ~payload.isNil =>
             /\ \A k \in DOMAIN payload.m \cap {KeyMessageLower, KeyMessageUpper} :
                   payload.m[k].kind # "string" =>
                       message.private = FirstNonEmpty(PlacesInOrder(WithoutKey(payload, k)))
             /\ \A k \in DOMAIN payload.m \cap {KeyErrorLower, KeyErrorUpper} :
                   /\ payload.m[k].kind # "map" =>
                        message.private = FirstNonEmpty(PlacesInOrder(WithoutKey(payload, k)))
                   /\ payload.m[k].kind = "map" =>
                        \A n \in DOMAIN payload.m[k].obj :
                            payload.m[k].obj[n].kind # "string" =>
                                message.private =
                                    FirstNonEmpty(PlacesInOrder(WithoutNestedKey(payload, k, n)))

\* a payload with a list at "message", a string at "error", a mapping at
\* "Error"."message", and the string of "Error"."Message" returned
C13_Witness ==
    /\ Extracted
    /\ ~payload.isNil
    /\ DOMAIN payload.m = {KeyMessageLower, KeyErrorLower, KeyErrorUpper}
    /\ payload.m[KeyMessageLower].kind = "list"
    /\ payload.m[KeyErrorLower].kind = "string"
    /\ payload.m[KeyErrorUpper].kind = "map"
    /\ KeyMessageLower \in DOMAIN payload.m[KeyErrorUpper].obj
    /\ payload.m[KeyErrorUpper].obj[KeyMessageLower].kind = "map"
    /\ message.private = AtErrorUpperMessageUpper


ErrorsExtracted == pc = "errors"

\* the patterns in lower case
LowerPatterns ==
    { <<"g","e","n","e","r","a","l","s","e","r","v","i","c","e","e","x","c",
        "e","p","t","i","o","n">>,
      <<"g","e","n","e","r","a","l"," ","s","e","r","v","i","c","e"," ","e",
        "x","c","e","p","t","i","o","n">>,
      <<"i","n","t","e","r","n","a","l"," ","f","a","i","l","u","r","e">>,
      <<"i","n","t","e","r","n","a","l","f","a","i","l","u","r","e">>,
      <<"s","e","r","v","i","c","e"," ","r","e","t","u","r","n","e","d"," ",
        "e","r","r","o","r">> }

\* C14: the flag of an extracted error is false for an empty reason; for any
\* other reason it is true exactly when the lower-cased reason contains one of
\* the five lower-cased patterns.
C14_GenericExactlyOnPattern ==
    ErrorsExtracted =>
        \A i \in 1..Len(stackErrors) :
            LET reason == stackErrors[i].ResourceStatusReason
            IN  /\ reason = <<>> => ~stackErrors[i].IsGeneralServiceException
                /\ reason # <<>> =>
                     (stackErrors[i].IsGeneralServiceException
                        <=> \E p \in LowerPatterns : Contains(ToLower(reason), p))
                /\ reason = ReasonInternalOccurred => stackErrors[i].IsGeneralServiceException
                /\ reason = ReasonPolicyDenied => ~stackErrors[i].IsGeneralServiceException

\* an error whose reason holds a pattern in upper case was flagged
C14_Witness ==
    /\ ErrorsExtracted
    /\ Len(stackErrors) = 1
    /\ stackErrors[1].ResourceStatusReason = ReasonUpperInternal
    /\ stackErrors[1].IsGeneralServiceException

\* the statuses that make a stack event an error
FailedStatusNames ==
    { "CREATE_FAILED", "DELETE_FAILED", "UPDATE_FAILED",
      "IMPORT_FAILED", "IMPORT_ROLLBACK_FAILED", "ROLLBACK_FAILED" }

\* the positions of the stack events with a failed status
FailedPositions == { i \in 1..Len(stackEvents) : stackEvents[i].ResourceStatus \in FailedStatusNames }

\* the k-th of them
FailedPosition(k) ==
    CHOOSE i \in FailedPositions : Cardinality({ j \in FailedPositions : j < i }) = k - 1

\* C20: ExtractErrors returns one error for each stack event with one of the
\* six failed statuses and none for the others, in the order of the events,
\* each with the event's fields and the flag of its own reason.
C20_AllFailuresInOrder ==
    ErrorsExtracted =>
        /\ Len(stackErrors) = Cardinality(FailedPositions)
        /\ \A k \in 1..Len(stackErrors) :
              LET event == stackEvents[FailedPosition(k)]
                  err == stackErrors[k]
              IN  /\ err.ResourceStatus = event.ResourceStatus
                  /\ err.EventId = (IF event.EventId.isNil THEN <<>> ELSE event.EventId.val)
                  /\ err.ResourceStatusReason =
                       (IF event.ResourceStatusReason.isNil THEN <<>>
                        ELSE event.ResourceStatusReason.val)
                  /\ err.Timestamp = (IF event.Timestamp.isNil THEN ZeroTime ELSE event.Timestamp.val)
                  /\ err.IsGeneralServiceException
                       = IsGeneralServiceException(err.ResourceStatusReason)

\* three events, the second one no failure, gave the two failures in their order
C20_Witness ==
    /\ ErrorsExtracted
    /\ Len(stackEvents) = 3
    /\ stackEvents[1].ResourceStatus = "IMPORT_ROLLBACK_FAILED"
    /\ stackEvents[2].ResourceStatus = "UPDATE_COMPLETE"
    /\ stackEvents[3].ResourceStatus = "CREATE_FAILED"
    /\ Len(stackErrors) = 2
    /\ stackErrors[1].ResourceStatus = "IMPORT_ROLLBACK_FAILED"
    /\ stackErrors[2].IsGeneralServiceException


Summarized == pc = "summarized"

\* the orders in which a list of n results can be given
Orders(n) == { q \in [1..n -> 1..n] : \A i, j \in 1..n : q[i] = q[j] => i = j }

\* C15: the summary counts the results, the results with an event and the
\* results whose failure is flagged; no count exceeds the total, and the
\* results in any other order give the same counts.
C15_SummaryCounts ==
    Summarized =>
        LET n == Len(correlatedErrors)
        IN  /\ summary.total = n
            /\ summary.withCloudTrail
                 = Cardinality({ i \in 1..n : correlatedErrors[i].CloudTrailEvent # 0 })
            /\ summary.generalServiceExceptions
                 = Cardinality({ i \in 1..n :
                                   correlatedErrors[i].StackError.IsGeneralServiceException })
            /\ summary.withCloudTrail <= summary.total
            /\ summary.generalServiceExceptions <= summary.total
            /\ \A q \in Orders(n) :
                  GetCorrelationSummary([i \in 1..n |-> correlatedErrors[q[i]]]) = summary

\* three results, some with an event and some without, one of them flagged
\* and with an event
C15_Witness ==
    /\ Summarized
    /\ summary.total = 3
    /\ summary.withCloudTrail \in {1, 2}
    /\ summary.generalServiceExceptions \in {1, 2}
    /\ \E i \in 1..3 : /\ correlatedErrors[i].CloudTrailEvent # 0
                       /\ correlatedErrors[i].StackError.IsGeneralServiceException


BothReturned == pc = "runs" /\ \A r \in Runs : runs[r].result # <<>>

\* C16: two runs on the same failure, events and config return the same
\* matched event and the same detailed message, whatever the orders in which
\* their range loops visited the keys of the payloads; it is the result of
\* CorrelateErrorsWithConfig.
C16_RunsAgree ==
    BothReturned =>
        /\ runs[1].result = runs[2].result
        /\ runs[1].result = CorrelateErrorsWithConfig(cfnErrors, trailEvents, config)

\* both runs returned a match by the resource id for an event whose payload
\* has three keys, one of them holding the id
C16_Witness ==
    /\ BothReturned
    /\ Len(trailEvents) = 2
    /\ trailEvents[2].ResponseElements = OneOfThree
    /\ trailEvents[2].ErrorCode # <<>>
    /\ cfnErrors[1].LogicalResourceId = IdAb
    /\ runs[1].idMatches[2] /\ runs[2].idMatches[2]
    /\ runs[1].result[1].CloudTrailEvent = 2


Filtered == pc = "filtered"

\* the two times lie on the same UTC calendar day
SameDay(t, ref) == t \div HoursPerDay = ref \div HoursPerDay

\* C17: filterErrorsByDate returns, in input order, exactly the errors whose
\* timestamp lies on the UTC calendar day of the reference date.
C17_ExactlySameDay ==
    Filtered =>
        filtered = SelectSeq(errors, LAMBDA err : SameDay(err.Timestamp, referenceDate))


RECURSIVE Listed(_)
\* the summaries of the pages from page p on
Listed(p) ==
    IF p > Len(stackPages) THEN {}
    ELSE { stackPages[p][i] : i \in 1..Len(stackPages[p]) } \cup Listed(p + 1)

\* a stack qualifies when it has a time
Qualifies(s) == ~s.LastUpdatedTime.isNil \/ ~s.CreationTime.isNil

EffectiveTime(s) ==
    IF ~s.LastUpdatedTime.isNil THEN s.LastUpdatedTime.val ELSE s.CreationTime.val

Qualified == { s \in Listed(1) : Qualifies(s) }

\* GetLatestStack has listed all pages and returned
AllListed == pc = "returned" /\ latestStack.err # "failed to list CloudFormation stacks"

\* C18: GetLatestStack returns the name of a stack whose effective time is the
\* greatest of all pages, and ErrNoStacksFound when no stack qualifies.
C18_LatestStack ==
    AllListed =>
        IF Qualified = {}
        THEN latestStack.err = "ErrNoStacksFound"
        ELSE /\ latestStack.err = "nil"
             /\ \E s \in Qualified :
                   /\ \A t \in Qualified : EffectiveTime(t) <= EffectiveTime(s)
                   /\ ~s.StackName.isNil
                   /\ s.StackName.val = latestStack.name


\* the requests of the analysis
AnalysisRequests == {"DescribeStackEvents", "LookupEvents"}

Requested(request) == \E i \in 1..Len(calls) : calls[i] = request

\* the stack does not exist
Missing == aws.describe \in {"does not exist", "no stacks"}

\* C19: run with a stack name that fails ValidateStackName, or of a stack that
\* does not exist, never retrieves stack events nor queries CloudTrail and
\* returns an error; ValidateStackExists returns the format error for an
\* invalid name and does not call DescribeStacks.
C19_NoAnalysisOfInvalidStack ==
    /\ (entry = "run" /\ Len(args) = 1
        /\ (ValidateStackName(args[1]) # "nil" \/ Missing))
       => /\ \A request \in AnalysisRequests : ~Requested(request)
          /\ pc = "returned" => runErr # "nil"
    /\ (entry = "run" /\ Len(args) = 1 /\ pc = "returned"
        /\ ValidateStackName(args[1]) # "nil")
       => runErr = ValidateStackName(args[1]) /\ calls = <<>>
    /\ (entry = "ValidateStackExists" /\ pc = "returned"
        /\ ValidateStackName(stackName) # "nil")
       => /\ runErr = ValidateStackName(stackName)
          /\ runErr \in {"ErrEmptyStackName", "ErrStackNameTooLong",
                         "ErrInvalidStackNameFormat"}
          /\ ~Requested("DescribeStacks")

\* run returned "stack not found" for a well-formed name after DescribeStacks
\* alone
C19_Witness ==
    /\ entry = "run"
    /\ args = <<NameValid>>
    /\ aws.describe = "does not exist"
    /\ pc = "returned"
    /\ runErr = "ErrStackNotFound"
    /\ calls = <<"DescribeStacks">>


Analysed == pc = "analysed"

\* the positions of the flagged stack errors of today
FlaggedToday == { i \in 1..Len(todayErrors) : todayErrors[i].IsGeneralServiceException }

\* the k-th of them
FlaggedAt(k) ==
    CHOOSE i \in FlaggedToday : Cardinality({ j \in FlaggedToday : j < i }) = k - 1

\* one search per flagged stack error, in their order, each from 10 minutes
\* before to 10 minutes after the timestamp of its stack error
OneSearchPerFlagged ==
    /\ Len(searches) = Cardinality(FlaggedToday)
    /\ \A k \in 1..Len(searches) :
          /\ searches[k].error = FlaggedAt(k)
          /\ searches[k].timeRange.StartTime = todayErrors[FlaggedAt(k)].Timestamp - 10
          /\ searches[k].timeRange.EndTime = todayErrors[FlaggedAt(k)].Timestamp + 10

\* C21 as stated: when analyzeStack has returned, it has searched once for
\* every flagged stack error, and has created no client when none is flagged.
C21_SearchPerFlaggedAsStated ==
    Analysed =>
        /\ OneSearchPerFlagged
        /\ FlaggedToday = {} => ctClient = "none"

\* C21: when analyzeStack has returned and the CloudTrail client was created,
\* it has searched once for every flagged stack error, in their order, from
\* 10 minutes before to 10 minutes after; without client it has not searched;
\* no client is created when no stack error is flagged.
C21_SearchPerFlagged ==
    Analysed =>
        /\ ctClient = "created" => OneSearchPerFlagged
        /\ ctClient # "created" => searches = <<>>
        /\ FlaggedToday = {} => ctClient = "none"
        /\ FlaggedToday # {} => ctClient # "none"

\* an unflagged and then a flagged stack error: one search, for the second
C21_Witness ==
    /\ Analysed
    /\ Len(todayErrors) = 2
    /\ FlaggedToday = {2}
    /\ ctClient = "created"
    /\ Len(searches) = 1
    /\ searches[1].error = 2
    /\ searches[1].timeRange.EndTime = todayErrors[2].Timestamp + SearchBuffer


\* the event is one that a successful search for the failure contributes
Contributes(event, failure) ==
    /\ event.EventTime >= failure.Timestamp - 10
    /\ event.EventTime <= failure.Timestamp + 10
    /\ \/ extractServiceName(failure.ResourceType) = <<>>
       \/ Contains(ToLower(event.EventSource), extractServiceName(failure.ResourceType))
    /\ \/ event.ErrorCode # <<>>
       \/ event.ErrorMessage # <<>>
       \/ FirstNonEmpty(PlacesInOrder(event.ResponseElements)) # <<>>

RECURSIVE EventsOfSearches(_)
\* the events of the successful searches from the k-th search on, in order
EventsOfSearches(k) ==
    IF k > Len(searches) THEN <<>>
    ELSE IF searches[k].failed THEN EventsOfSearches(k + 1)
    ELSE SelectSeq(trailStore,
                   LAMBDA event : Contributes(event, todayErrors[searches[k].error]))
         \o EventsOfSearches(k + 1)

\* C22: whether the CloudTrail client cannot be created or searches fail,
\* analyzeStack returns an analysis without error, with one result per stack
\* error of today, in their order; the events it correlates are those of
\* all searches that succeeded, before and after a search that failed.
C22_DegradesGracefully ==
    Analysed =>
        /\ analysis.err = "nil"
        /\ Len(analysis.Errors) = Len(todayErrors)
        /\ \A i \in 1..Len(todayErrors) : analysis.Errors[i].StackError = todayErrors[i]
        /\ allTrailEvents = EventsOfSearches(1)
        /\ ctClient = "failed" =>
             \A i \in 1..Len(todayErrors) : analysis.Errors[i].CloudTrailEvent = 0

\* the first search fetched events, the second search failed, and a result
\* has an event
C22_Witness ==
    /\ Analysed
    /\ Len(searches) = 2
    /\ ~searches[1].failed
    /\ searches[2].failed
    /\ allTrailEvents # <<>>
    /\ \E i \in 1..Len(analysis.Errors) : analysis.Errors[i].CloudTrailEvent # 0


\* the window test of the loop skips the event at time u for the failure at time t
SkippedByWindow(t, u) == OutsideWindow(absTimeDiff(t, u), config)

\* C23: a single event with error information exactly TimeWindow away from
\* the failure is matched; and the window test gives the same answer for two
\* times as for the same two times the other way round (one d before, the
\* other d after).
C23_InclusiveSymmetric ==
    Returned =>
        \A i \in 1..Len(correlatedErrors) : \A j \in 1..Len(trailEvents) :
            LET t == cfnErrors[i].Timestamp
                u == trailEvents[j].EventTime
            IN  /\ (/\ Len(trailEvents) = 1
                    /\ ~NoErrorInfo(trailEvents[j])
                    /\ TrueTimeDiff(t, u) = config.TimeWindow)
                   => correlatedErrors[i].CloudTrailEvent = j
                /\ SkippedByWindow(t, u) = SkippedByWindow(u, t)


EventsReturned == pc = "events returned"

RECURSIVE PagesFrom(_)
\* the events of the pages from page p on, in page order
PagesFrom(p) ==
    IF p > Len(eventPages) THEN <<>> ELSE eventPages[p] \o PagesFrom(p + 1)

\* C24: the first request carries no token and every later request the token
\* that the page before returned; without failure every page is requested
\* once and the events of all pages are returned in page order; with a failed
\* request an error and no event is returned.
C24_AllPages ==
    /\ \A k \in 1..Len(tokensSent) : tokensSent[k] = k - 1
    /\ EventsReturned =>
         IF stackEventsResult.err = "nil"
         THEN /\ Len(tokensSent) = Len(eventPages)
              /\ stackEventsResult.events = PagesFrom(1)
         ELSE /\ stackEventsResult.err = "failed to describe stack events"
              /\ stackEventsResult.events = <<>>

\* three pages, the second one empty, and the events of the other two returned
C24_Witness ==
    /\ EventsReturned
    /\ stackEventsResult.err = "nil"
    /\ Len(eventPages) = 3
    /\ eventPages[1] # <<>> /\ eventPages[2] = <<>> /\ eventPages[3] # <<>>
    /\ eventPages[1] # eventPages[3]
    /\ stackEventsResult.events = eventPages[1] \o eventPages[3]


SearchSucceeded == pc = "search returned" /\ searchResult.err = "nil"

\* the event is among the events returned
Found(event) == \E k \in 1..Len(searchResult.events) : searchResult.events[k] = event

\* every event with valid JSON of every page is among the events returned
AllFound(pages) ==
    \A p \in 1..Len(pages) : \A k \in 1..Len(pages[p]) :
        pages[p][k].validJson => Found(pages[p][k].event)

\* C25: a search with filters that succeeded has sent a lookup for every
\* filter and returns the events of every filter; a search without filters
\* has sent lookups without attribute only and returns the events of the
\* time range.
C25_EveryFilterLookedUp ==
    SearchSucceeded =>
        IF Len(filters) = 0
        THEN /\ \A k \in 1..Len(lookupRequests) : lookupRequests[k].attribute = ""
             /\ AllFound(trailPages.all)
        ELSE \A i \in 1..Len(filters) :
                /\ \E k \in 1..Len(lookupRequests) : lookupRequests[k].attribute = filters[i]
                /\ AllFound(trailPages.byResource[filters[i]])


\* C26: the detailed message of a result with a matched event is
\* extractDetailedMessage of that event and is not empty; every event with
\* error information has a non-empty detailed message.
C26_MatchedMessageFromEvent ==
    Returned =>
        /\ \A i \in 1..Len(correlatedErrors) :
              LET m == correlatedErrors[i].CloudTrailEvent
              IN  m # 0 =>
                    /\ correlatedErrors[i].DetailedMessage = extractDetailedMessage(trailEvents[m])
                    /\ correlatedErrors[i].DetailedMessage # <<>>
        /\ \A j \in 1..Len(trailEvents) :
              ~NoErrorInfo(trailEvents[j]) => extractDetailedMessage(trailEvents[j]) # <<>>

\* a result whose matched event has an error code and nothing else, and whose
\* failure has another reason
C26_Witness ==
    /\ Returned
    /\ \E i \in 1..Len(correlatedErrors) :
          LET m == correlatedErrors[i].CloudTrailEvent
          IN  /\ m # 0
              /\ trailEvents[m].ErrorMessage = <<>>
              /\ trailEvents[m].ResponseElements.isNil
              /\ trailEvents[m].ErrorCode = CodeE
              /\ correlatedErrors[i].DetailedMessage = ErrorCodePrefix \o CodeE
              /\ correlatedErrors[i].StackError.ResourceStatusReason = ReasonGeneric


\* C27: in a returned analysis GeneralErrors counts the entries of Errors
\* whose failure is flagged and DetailedErrors those with a matched event, as
\* GetCorrelationSummary counts them on Errors; neither exceeds the number of
\* entries, and there is no detailed error without a general one.
C27_AnalysisCounts ==
    (Analysed /\ analysis.err = "nil") =>
        LET n == Len(analysis.Errors)
            counted == GetCorrelationSummary(analysis.Errors)
        IN  /\ analysis.GeneralErrors
                 = Cardinality({ i \in 1..n :
                                   analysis.Errors[i].StackError.IsGeneralServiceException })
            /\ analysis.DetailedErrors
                 = Cardinality({ i \in 1..n : analysis.Errors[i].CloudTrailEvent # 0 })
            /\ analysis.GeneralErrors = counted.generalServiceExceptions
            /\ analysis.DetailedErrors = counted.withCloudTrail
            /\ analysis.GeneralErrors <= n
            /\ analysis.DetailedErrors <= n
            /\ analysis.DetailedErrors > 0 => analysis.GeneralErrors > 0

\* an analysis of a flagged and an unflagged failure with a matched event
C27_Witness ==
    /\ Analysed
    /\ analysis.err = "nil"
    /\ Len(analysis.Errors) = 2
    /\ analysis.GeneralErrors = 1
    /\ analysis.DetailedErrors >= 1


\* C28: a name returned by GetLatestStack is the name of a listed stack whose
\* effective time no listed stack exceeds, whether or not the newest stack
\* has a name.
C28_NameOfNewest ==
    (AllListed /\ latestStack.err = "nil") =>
        \E s \in Qualified :
            /\ ~s.StackName.isNil
            /\ s.StackName.val = latestStack.name
            /\ ~ \E t \in Qualified : EffectiveTime(t) > EffectiveTime(s)


\* C29: on every event CloudTrail holds the helpers of the correlator and
\* those of the cloudtrail package give the same answers, and every event
\* collected by queryCloudTrailForErrors scores at least 1 against every
\* failure.
C29_HelpersAgree ==
    /\ \A j \in 1..Len(trailStore) :
          LET event == trailStore[j]
          IN  /\ hasErrorInformation(event) = HasErrorInformation(event)
              /\ extractMessageFromResponseElements(event.ResponseElements)
                   = ExtractMessageFromResponseElements(event.ResponseElements)
              /\ extractDetailedMessage(event) = GetDetailedErrorMessage(event)
    /\ \A j \in 1..Len(allTrailEvents) : \A i \in 1..Len(todayErrors) :
          calculateMatchScore(todayErrors[i], allTrailEvents[j]) >= 1

\* an event whose only error information is a message of its payload was
\* collected and matched, and CloudTrail holds events that were not collected
C29_Witness ==
    /\ Analysed
    /\ \E j \in 1..Len(allTrailEvents) :
          /\ allTrailEvents[j].ErrorCode = <<>>
          /\ allTrailEvents[j].ErrorMessage = <<>>
          /\ ~allTrailEvents[j].ResponseElements.isNil
          /\ GetDetailedErrorMessage(allTrailEvents[j]) # <<>>
    /\ analysis.DetailedErrors >= 1

====
